---------------------------- MODULE Spec2Model ----------------------------
(***************************************************************************)
(* Model of PDF MASTER PRO:                                                *)
(*   src/core/document_analyzer.py  (DocumentAnalyzer)                     *)
(*   src/core/acroform_handler.py   (AcroFormHandler)                      *)
(*   PDF_MASTER_PRO.py              (select_pdf / _handle_analysis_result, *)
(*                                   sync_from_generator and               *)
(*                                   sync_to_generator)                    *)
(*   src/utils/preview_cache.py     (PreviewCache)                         *)
(*   src/ui/app_pdf_generator.py    (undo and redo, dragging in the        *)
(*                                   preview)                              *)
(*   src/core/pdf_generator.py      (generar_pdf)                          *)
(*   src/core/pdf_simple_fields.py  (añadir_campos_a_pdf)                  *)
(*                                                                         *)
(* Coordinates are laid on a grid of PerPt units per PDF point, so that    *)
(* half points (10.5pt) are exact.  Every threshold of the source is       *)
(* multiplied by PerPt.  A Line is the tuple <<x0, x1, y>> and a label     *)
(* bounding box the tuple <<x0, y0, x1, y1>>, as in the source.            *)
(***************************************************************************)
EXTENDS Integers, Sequences, FiniteSets, TLC

VARIABLES
    \* --- _merge_detected_lines, checked on its own (SpecMerge)
    vector_lines, opencv_lines, merged, mpc,
    \* --- label-line association of one label (SpecAssoc)
    lines, label_bbox, same_row_line, closest_line, below_consulted, field_box, apc,
    \* --- DocumentAnalyzer.analyze_pdf (Spec)
    pc,                 \* where analyze_pdf is
    doc_state,          \* the handle doc: "none", "open" or "closed"
    n_pages,            \* len(doc)
    page_num,           \* the page the running extractor is at
    progress_callback,  \* whether the caller passed a progress callback
    fields,             \* the list the running extractor is filling
    acroform_fields,    \* what _extract_acroform_fields returned
    labels_seen,        \* labels accepted so far by the label extractor
    title,              \* what _detect_title returned
    raised,             \* the step that raised, "" when none did
    calls,              \* the components invoked so far, in order
    result,             \* the dictionary analyze_pdf returns
    page_in,            \* what the detectors gave on the last page analysed
    opencv_failed,      \* whether the raster detector failed on some page
    \* --- PDFMasterPro.select_pdf and _handle_analysis_result (SpecUI)
    status_label,       \* text and colour of the status indicator
    bg_pdf_path,        \* app_generator.config_visual['bg_pdf_path']
    total_pages, current_page,
    page_label,         \* <<page shown, pages>> of "Página: n/m"
    title_entry,        \* app_generator.title_entry
    editor_fields,      \* labels of visual_editor.fields
    threads,            \* the analysis threads that are running
    after_queue,        \* callbacks queued with self.after, not yet run
    ui_log,             \* the results handled so far with the status each left
    n_selects,          \* presses of the open button so far
    \* --- AcroFormHandler.extract_fields (SpecHandler)
    field_objs,         \* acroform["/Fields"], dereferenced
    h_index,            \* field objects handled so far
    h_fields,           \* the list extract_fields is filling
    h_last,             \* <<field_data>> of the last object, <<>> when None
    hpc,
    \* --- DocumentAnalyzer._extract_label_info on one text line (SpecLabel)
    line_text,          \* the text of the line
    font_sizes,         \* the size of each of its spans
    label_result,       \* <<label>> when accepted, <<>> when None was returned
    lpc,
    \* --- PreviewCache (SpecCache)
    cache,              \* the keys of self.cache
    access_order,       \* self.access_order
    workers,            \* per key, the calls of get_preview inside _render_page
    n_calls,            \* calls of get_preview so far
    last_use,           \* the cached keys, least recently hit or inserted first
    last_eviction,      \* <<what the last _cleanup_cache deleted>>, <<>> before
    index_error,        \* whether access_order.pop(0) raised IndexError
    \* --- PDFGeneratorApp undo and redo (SpecUndo)
    undo_stack, redo_stack,
    primary_color,      \* config_visual['primary_color']
    field_rows,         \* the labels of self.field_rows
    undo_hist,          \* the last two operations and the state before the last undo
    \* --- generar_pdf and añadir_campos_a_pdf (SpecGen)
    bg_heights,         \* the page heights of the background PDF, <<>> without one
    campos,             \* the field list passed in
    g_idx,              \* fields of campos the layout loop has handled
    current_page_idx, current_y, campos_info_acroform,
    headers,            \* the page numbers dibujar_cabecera was called with
    out_pdf,            \* <<the document generar_pdf wrote>>
    simple_out,         \* <<the fields añadir_campos_a_pdf added>>
    gpc,
    \* --- PDFMasterPro.sync_from_generator and sync_to_generator (SpecSync)
    gen_rows,           \* app_generator.field_rows: label and abs_pos of each
    ve_fields,          \* visual_editor.fields
    bg_exists,          \* whether config_visual['bg_pdf_path'] names a file
    sync_hist,          \* the last two operations and the rows before the last load
    \* --- PDFGeneratorApp._on_preview_click / _drag / _release (SpecDrag)
    preview_rows,       \* the abs_pos of each of field_rows, <<>> for a flowing row
    drag_preview,       \* self._drag_preview
    drag_hist           \* the last handler, the abs_pos at the click, the last pointer

mergeVars == <<vector_lines, opencv_lines, merged, mpc>>
assocVars == <<lines, label_bbox, same_row_line, closest_line, below_consulted, field_box, apc>>
analyzerVars == <<pc, doc_state, n_pages, page_num, progress_callback, fields,
                  acroform_fields, labels_seen, title, raised, calls, result,
                  page_in, opencv_failed>>
uiVars == <<status_label, bg_pdf_path, total_pages, current_page, page_label,
            title_entry, editor_fields, threads, after_queue, ui_log, n_selects>>
handlerVars == <<field_objs, h_index, h_fields, h_last, hpc>>
labelVars == <<line_text, font_sizes, label_result, lpc>>
coreVars == <<mergeVars, assocVars, analyzerVars, uiVars, handlerVars, labelVars>>
cacheVars == <<cache, access_order, workers, n_calls, last_use, last_eviction,
               index_error>>
undoVars == <<undo_stack, redo_stack, primary_color, field_rows, undo_hist>>
genVars == <<bg_heights, campos, g_idx, current_page_idx, current_y,
             campos_info_acroform, headers, out_pdf, simple_out, gpc>>
syncVars == <<gen_rows, ve_fields, bg_exists, sync_hist>>
dragVars == <<preview_rows, drag_preview, drag_hist>>
extraVars == <<cacheVars, undoVars, genVars, syncVars, dragVars>>
vars == <<coreVars, extraVars>>

-----------------------------------------------------------------------------
(* Bounds of the model *)

\* grid units per PDF point
PerPt == 2
\* longest list handed to _merge_detected_lines by each detector
MaxMergeLines == 2
\* longest line list handed to the association strategies
MaxAssocLines == 3

-----------------------------------------------------------------------------
(* Helpers *)

\* n PDF points, in grid units
Pt(n) == n * PerPt
\* n half PDF points, in grid units (rounded down when PerPt is odd)
HalfPt(n) == (n * PerPt) \div 2

Abs(n) == IF n < 0 THEN -n ELSE n
Max(a, b) == IF a >= b THEN a ELSE b
Min(a, b) == IF a <= b THEN a ELSE b

\* Python's None
None == <<>>

\* all sequences over S of length at most n
SeqsUpTo(S, n) == UNION {[1..k -> S] : k \in 0..n}

Front(s) == SubSeq(s, 1, Len(s) - 1)
Last(s) == s[Len(s)]

-----------------------------------------------------------------------------
(* DocumentAnalyzer._merge_detected_lines *)

tolerance_y == Pt(4)
tolerance_x == Pt(10)

\* list.sort(key=lambda l: l[2]) is stable: l goes after every entry with y <= l.y
RECURSIVE InsertByY(_, _)
InsertByY(s, l) ==
    IF s = <<>> THEN <<l>>
    ELSE IF Last(s)[3] <= l[3] THEN Append(s, l)
    ELSE Append(InsertByY(Front(s), l), Last(s))

RECURSIVE SortByY(_)
SortByY(s) == IF s = <<>> THEN <<>> ELSE InsertByY(SortByY(Front(s)), Last(s))

\* the duplicate test of line 390
IsDuplicateOf(line, e) ==
    /\ Abs(line[3] - e[3]) < tolerance_y
    /\ Abs(line[1] - e[1]) < tolerance_x
    /\ Abs(line[2] - e[2]) < tolerance_x

\* the scan comparing with the last accepted line only
BackwardScanLastOnly(acc, i, line) ==
    i > 0 /\ IsDuplicateOf(line, acc[i])

\* the scan that stops at the first accepted line above the candidate, however
\* close
RECURSIVE BackwardScanBreakAnyGap(_, _, _)
BackwardScanBreakAnyGap(acc, i, line) ==
    IF i = 0 THEN FALSE
    ELSE IF line[3] - acc[i][3] > 0 THEN FALSE
    ELSE IF IsDuplicateOf(line, acc[i]) THEN TRUE
    ELSE BackwardScanBreakAnyGap(acc, i - 1, line)

\* for i in range(len(merged) - 1, -1, -1): break when y - ey > tolerance_y
RECURSIVE BackwardScan(_, _, _)
BackwardScan(acc, i, line) ==
    IF i = 0 THEN FALSE
    ELSE IF line[3] - acc[i][3] > tolerance_y THEN FALSE
    ELSE IF IsDuplicateOf(line, acc[i]) THEN TRUE
    ELSE BackwardScan(acc, i - 1, line)

\* for line in all_lines: ... if not is_duplicate: merged.append(line)
RECURSIVE MergeLoop(_, _, _)
MergeLoop(all_lines, k, acc) ==
    IF k > Len(all_lines) THEN acc
    ELSE MergeLoop(all_lines, k + 1,
                   IF BackwardScan(acc, Len(acc), all_lines[k])
                   THEN acc ELSE Append(acc, all_lines[k]))

merge_detected_lines(vl, ol) ==
    LET all_lines == vl \o ol
    IN IF all_lines = <<>> THEN <<>>
       ELSE MergeLoop(SortByY(all_lines), 1, <<>>)

-----------------------------------------------------------------------------
(* DocumentAnalyzer._find_closest_line  (strategy 1 when search_right)      *)
(* Distances are kept doubled: label_center_y = (y0 + y1) / 2 and the       *)
(* horizontal distance is weighted 0.5.                                     *)

\* 2 * abs(line_y - label_center_y)
VerticalDistance2(bbox, line) == Abs(2 * line[3] - (bbox[2] + bbox[4]))

\* 2 * (vertical_distance + horizontal_distance * 0.5)
TotalDistance2(bbox, line) ==
    VerticalDistance2(bbox, line) + Max(0, line[1] - bbox[3])

\* if vertical_distance < 25 and is_right and is_below
Accepts1(bbox, line, search_right, search_below) ==
    /\ VerticalDistance2(bbox, line) < 2 * Pt(25)
    /\ (search_right => line[1] >= bbox[1] - Pt(10))
    /\ (search_below => line[3] >= bbox[2] - Pt(5))

RECURSIVE FindLoop1(_, _, _, _, _, _)
FindLoop1(bbox, ls, sr, sb, k, best) ==
    IF k > Len(ls) THEN best
    ELSE FindLoop1(bbox, ls, sr, sb, k + 1,
            IF /\ Accepts1(bbox, ls[k], sr, sb)
               /\ (best = None \/ TotalDistance2(bbox, ls[k]) < TotalDistance2(bbox, best))
            THEN ls[k] ELSE best)

\* the first line accepted, whatever its distance
find_closest_line_first(bbox, ls, sr, sb) ==
    IF \E k \in 1..Len(ls) : Accepts1(bbox, ls[k], sr, sb)
    THEN ls[CHOOSE k \in 1..Len(ls) :
                /\ Accepts1(bbox, ls[k], sr, sb)
                /\ \A j \in 1..(k - 1) : ~Accepts1(bbox, ls[j], sr, sb)]
    ELSE None

find_closest_line(bbox, ls, sr, sb) == FindLoop1(bbox, ls, sr, sb, 1, None)

-----------------------------------------------------------------------------
(* DocumentAnalyzer._find_closest_line_below  (strategy 2)                  *)
(* Distances are kept tenfold: the horizontal distance is weighted 0.3.     *)

\* horizontal_overlap and horizontal_distance of lines 483-487
HorizontalDistance(bbox, line) ==
    LET horizontal_overlap == Min(line[2], bbox[3]) - Max(line[1], bbox[1])
    IN IF horizontal_overlap > 0 THEN 0
       ELSE Min(Abs(line[1] - bbox[3]), Abs(line[2] - bbox[1]))

\* 10 * (vertical_distance + horizontal_distance * 0.3)
TotalDistanceBelow10(bbox, line) ==
    10 * (line[3] - bbox[4]) + 3 * HorizontalDistance(bbox, line)

\* the three tests of lines 471, 478 and 490
AcceptsBelow(bbox, line) ==
    /\ ~(line[3] < bbox[4])
    /\ ~(line[3] - bbox[4] > Pt(30))
    /\ HorizontalDistance(bbox, line) < Pt(50)

RECURSIVE FindLoopBelow(_, _, _, _)
FindLoopBelow(bbox, ls, k, best) ==
    IF k > Len(ls) THEN best
    ELSE FindLoopBelow(bbox, ls, k + 1,
            IF /\ AcceptsBelow(bbox, ls[k])
               /\ (best = None
                   \/ TotalDistanceBelow10(bbox, ls[k]) < TotalDistanceBelow10(bbox, best))
            THEN ls[k] ELSE best)

find_closest_line_below(bbox, ls) == FindLoopBelow(bbox, ls, 1, None)

-----------------------------------------------------------------------------
(* DocumentAnalyzer._extract_visual_fields: the association of one label    *)
(* (the body of the loop "for label_info in labels_found")                  *)

field_h_standard == Pt(20)
fallback_w == Pt(150)
fallback_dx == Pt(5)

\* the value of field_box before any label is associated
NoBox == [x |-> 0, y |-> 0, w |-> 0, h |-> 0]

\* lines 205-218: the field box from the line found, or the estimated box
FieldBox(bbox, cl) ==
    IF cl # None
    THEN [x |-> cl[1], y |-> cl[3], w |-> cl[2] - cl[1], h |-> field_h_standard]
    ELSE [x |-> bbox[3] + fallback_dx, y |-> bbox[2], w |-> fallback_w,
          h |-> bbox[4] - bbox[2]]

\* both strategies always run and the line below wins when there is one
AssociateLabelBelowFirst(bbox, all_lines) ==
    LET s1 == find_closest_line(bbox, all_lines, TRUE, FALSE)
        s2 == find_closest_line_below(bbox, all_lines)
        cl == IF s2 # None THEN s2 ELSE s1
    IN [same_row |-> s1, below_consulted |-> TRUE, closest |-> cl,
        box |-> FieldBox(bbox, cl)]

\* lines 195-218
AssociateLabel(bbox, all_lines) ==
    LET s1 == find_closest_line(bbox, all_lines, TRUE, FALSE)
        consult == (s1 = None)
        cl == IF consult THEN find_closest_line_below(bbox, all_lines) ELSE s1
    IN [same_row |-> s1, below_consulted |-> consult, closest |-> cl,
        box |-> FieldBox(bbox, cl)]

-----------------------------------------------------------------------------
(* Inputs of the two function-level specifications *)

\* lines around Y = 50pt: equal, jittered, chained and disjoint ones
MergeLineSet ==
    { <<Pt(10), Pt(100), Pt(50)>>,
      <<HalfPt(21), Pt(99), Pt(51)>>,
      <<Pt(10), Pt(100), Pt(54)>>,
      <<Pt(19), Pt(109), Pt(53)>>,
      <<Pt(200), Pt(250), Pt(50)>>,
      <<Pt(10), Pt(50), Pt(50)>>,
      <<Pt(10), Pt(100), Pt(58)>> }

\* labels: the spec's example and a label whose box has no height
AssocLabelSet ==
    { <<Pt(50), Pt(100), Pt(120), Pt(112)>>,
      <<Pt(50), Pt(100), Pt(120), Pt(100)>> }

\* lines on and off every threshold of the two strategies for the labels above
AssocLineSet ==
    { <<Pt(130), Pt(300), Pt(106)>>,
      <<Pt(40), Pt(200), Pt(130)>>,
      <<Pt(39), Pt(200), Pt(106)>>,
      <<Pt(130), Pt(300), Pt(131)>>,
      <<Pt(170), Pt(300), Pt(135)>>,
      <<Pt(169), Pt(300), Pt(142)>>,
      <<Pt(60), Pt(110), Pt(143)>>,
      <<Pt(130), Pt(300), Pt(81)>>,
      <<Pt(0), Pt(10), Pt(120)>>,
      <<Pt(60), Pt(110), Pt(113)>> }

MergeIdle ==
    /\ vector_lines = <<>> /\ opencv_lines = <<>> /\ merged = <<>> /\ mpc = "idle"

AssocIdle ==
    /\ lines = <<>> /\ label_bbox = None /\ same_row_line = None
    /\ closest_line = None /\ below_consulted = FALSE /\ field_box = NoBox
    /\ apc = "idle"

HandlerIdle ==
    /\ field_objs = <<>> /\ h_index = 0 /\ h_fields = <<>> /\ h_last = <<>>
    /\ hpc = "idle"

LabelIdle ==
    /\ line_text = "" /\ font_sizes = <<>> /\ label_result = <<>> /\ lpc = "idle"

\* PreviewCache: the PDFs and pages previewed, at get_preview's default dpi
\* cache_key = f"{pdf_path}_{page_num}_{dpi}"
cache_key(pdf_path, pn, dpi) ==
    pdf_path \o "_" \o ToString(pn) \o "_" \o ToString(dpi)

\* the keys get_preview is called with: two pages of two PDFs at 150 dpi
CacheKeys == { cache_key(p, n, 150) : p \in {"a.pdf", "b.pdf"}, n \in 0..1 }

CacheIdle ==
    /\ cache = {} /\ access_order = <<>> /\ n_calls = 0 /\ last_use = <<>>
    /\ workers = [key \in CacheKeys |-> 0]
    /\ last_eviction = <<>> /\ index_error = FALSE

\* _init_state, DEFAULT_CONFIG_VISUAL and add_default_fields (one of its rows)
AppState(us, rs, color, rows) ==
    [undo_stack |-> us, redo_stack |-> rs, primary_color |-> color, field_rows |-> rows]

UndoIdle ==
    /\ undo_stack = <<>> /\ redo_stack = <<>> /\ primary_color = "#2E86C1"
    /\ field_rows = <<"Nombre Completo">>
    /\ undo_hist = [ops |-> <<"", "">>, before |-> AppState(<<>>, <<>>, "", <<>>)]

GenIdle ==
    /\ bg_heights = <<>> /\ campos = <<>> /\ g_idx = 0 /\ current_page_idx = 0
    /\ current_y = 0 /\ campos_info_acroform = <<>> /\ headers = <<>>
    /\ out_pdf = <<>> /\ simple_out = <<>> /\ gpc = "idle"

SyncIdle ==
    /\ gen_rows = <<>> /\ ve_fields = <<>> /\ bg_exists = FALSE
    /\ sync_hist = [ops |-> <<"", "">>, before |-> <<>>]

DragIdle ==
    /\ preview_rows = <<>>
    /\ drag_preview = [id |-> None, field_idx |-> 0, start_x |-> 0, start_y |-> 0,
                       original_pos |-> <<0, 0>>]
    /\ drag_hist = [op |-> "", before |-> <<>>, t |-> <<0, 0>>, clicks |-> 0]

ExtraIdle == CacheIdle /\ UndoIdle /\ GenIdle /\ SyncIdle /\ DragIdle

\* status_label.configure(text=..., text_color=...)
Status(text, color) == [text |-> text, text_color |-> color]

\* the editor tab before any PDF was opened
UIIdle ==
    /\ status_label = Status(<<"Sincronizado">>, "#34C759")
    /\ bg_pdf_path = "" /\ total_pages = 1 /\ current_page = 0
    /\ page_label = <<1, 1>> /\ title_entry = None /\ editor_fields = <<>>
    /\ threads = {} /\ after_queue = <<>> /\ ui_log = {} /\ n_selects = 0

-----------------------------------------------------------------------------
(* DocumentAnalyzer._map_widget_type and _determine_field_type *)

\* type_map.get(widget_type, 'text') over PyMuPDF's widget type codes
map_widget_type(widget_type) ==
    CASE widget_type = 1 -> "checkbox"
      [] widget_type = 2 -> "checkbox"
      [] widget_type = 3 -> "radio"
      [] widget_type = 4 -> "text"
      [] widget_type = 5 -> "dropdown"
      [] widget_type = 6 -> "dropdown"
      [] widget_type = 7 -> "signature"
      [] OTHER -> "text"

\* the label texts of the model and the PATTERNS entry each one matches first:
\* only 'fecha' maps to 'date', every other entry and no match map to 'text'
determine_field_type(text) == IF text = "Fecha" THEN "date" ELSE "text"

-----------------------------------------------------------------------------
(* DocumentAnalyzer._extract_acroform_fields: the field of one widget *)

\* fitz.Rect.width and fitz.Rect.height: 0 for a rectangle whose corners are
\* reversed
RectWidth(rect) == Max(0, rect[3] - rect[1])
RectHeight(rect) == Max(0, rect[4] - rect[2])

\* lines 112-136; n is len(fields) when the widget is reached
WidgetFieldInfo(widget, n, page) ==
    LET field_type == map_widget_type(widget.field_type)
    IN [label |-> IF widget.field_name # "" THEN widget.field_name
                  ELSE "Campo " \o ToString(n + 1),
        type |-> field_type,
        abs_pos |-> [x |-> widget.rect[1], y |-> widget.rect[2],
                     w |-> RectWidth(widget.rect), h |-> RectHeight(widget.rect),
                     page |-> page],
        column |-> "full",
        options |-> IF field_type \in {"dropdown", "radio"}
                    THEN widget.field_value ELSE <<>>,
        required |-> FALSE,
        validation |-> "Ninguno"]

\* for widget in widgets: ... fields.append(field_info)
RECURSIVE WidgetsToFields(_, _, _, _)
WidgetsToFields(widgets, k, acc, page) ==
    IF k > Len(widgets) THEN acc
    ELSE WidgetsToFields(widgets, k + 1,
            Append(acc, WidgetFieldInfo(widgets[k], Len(acc), page)), page)

-----------------------------------------------------------------------------
(* DocumentAnalyzer._extract_visual_fields: the fields of one page *)

\* lines 220-236
LabelFieldInfo(label_info, all_lines, page) ==
    LET box == AssociateLabel(label_info.bbox, all_lines).box
    IN [label |-> label_info.text,
        type |-> determine_field_type(label_info.text),
        abs_pos |-> [x |-> box.x, y |-> box.y, w |-> box.w, h |-> box.h,
                     page |-> page],
        column |-> "full",
        options |-> <<>>,
        required |-> FALSE,
        validation |-> "Ninguno"]

\* a page that yields no field for a label neither strategy finds a line for
PageFieldsDropUnmatched(labels_found, all_lines, page) ==
    LET matched == SelectSeq(labels_found,
                     LAMBDA l : AssociateLabel(l.bbox, all_lines).closest # None)
    IN [i \in 1..Len(matched) |-> LabelFieldInfo(matched[i], all_lines, page)]

\* for label_info in labels_found: ... fields.append(field_info)
PageFields(labels_found, all_lines, page) ==
    [i \in 1..Len(labels_found) |-> LabelFieldInfo(labels_found[i], all_lines, page)]

\* a raster detector whose lines survive its own failure
detect_horizontal_lines_opencv_keeps(ol, fails) == ol

\* _detect_horizontal_lines_opencv, lines 275-346: the lines it found, or []
\* when rendering or detection raised (except Exception, lines 344-346)
detect_horizontal_lines_opencv(ol, fails) == IF fails THEN <<>> ELSE ol

\* the call log entry of one component on one page (page 0 for the whole
\* document)
Call(op, page, total) == [op |-> op, page |-> page, total |-> total]

\* a page announced to the progress callback after it was analysed
PageCallsProgressLast(has_callback, page, total) ==
    <<Call("vector", page + 1, total), Call("opencv", page + 1, total),
      Call("merge", page + 1, total), Call("labels", page + 1, total)>>
    \o (IF has_callback THEN <<Call("progress", page + 1, total)>> ELSE <<>>)

\* lines 151-164 and 167: what runs on a page before the labels are associated
PageCalls(has_callback, page, total) ==
    (IF has_callback THEN <<Call("progress", page + 1, total)>> ELSE <<>>)
    \o <<Call("vector", page + 1, total), Call("opencv", page + 1, total),
         Call("merge", page + 1, total), Call("labels", page + 1, total)>>

\* the components entered on a page up to the one that raises at `site`
CallsUpTo(site, has_callback, page, total) ==
    LET all == PageCalls(has_callback, page, total)
        cb == IF has_callback THEN 1 ELSE 0
    IN CASE site = "progress" -> SubSeq(all, 1, 1)
         [] site = "page" -> SubSeq(all, 1, cb)
         [] site = "vector" -> SubSeq(all, 1, cb + 1)
         [] OTHER -> all

-----------------------------------------------------------------------------
(* DocumentAnalyzer.analyze_pdf: results *)

\* the dictionary returned by the except branch, lines 84-91, that also hands
\* back the fields collected so far
FailureResultPartial(e) ==
    [fields |-> fields, title |-> None, has_acroform |-> FALSE,
     page_count |-> 0, success |-> FALSE, error |-> e]

\* the dictionary returned by the except branch, lines 84-91
FailureResult(e) ==
    [fields |-> <<>>, title |-> None, has_acroform |-> FALSE,
     page_count |-> 0, success |-> FALSE, error |-> e]

\* a result that reports an empty field list as a failure
SuccessResultEmptyFails(fs, t, acro, n) ==
    IF fs = <<>>
    THEN [fields |-> <<>>, title |-> None, has_acroform |-> FALSE,
          page_count |-> 0, success |-> FALSE, error |-> "no fields"]
    ELSE [fields |-> fs, title |-> t, has_acroform |-> acro,
          page_count |-> n, success |-> TRUE]

\* the dictionary returned by the try branch, lines 75-81
SuccessResult(fs, t, acro, n) ==
    [fields |-> fs, title |-> t, has_acroform |-> acro,
     page_count |-> n, success |-> TRUE]

\* the visual pipeline run whatever AcroForm extraction returned
RunsVisualAlways(af) == TRUE

\* if not acroform_fields
RunsVisual(af) == af = <<>>

\* the value of result while analyze_pdf is running
NoResult == [pending |-> TRUE]

-----------------------------------------------------------------------------
(* Inputs of analyze_pdf: what a document may hold *)

\* pages of the longest document
MaxPages == 2
\* widgets on a page
MaxWidgets == 1
\* labels accepted on a page
MaxLabels == 2

\* a text widget, a checkbox whose rectangle has its corners reversed, a
\* dropdown whose rectangle has no width and no name
WidgetSet ==
    { [field_name |-> "nombre", field_type |-> 4, field_value |-> <<>>,
       rect |-> <<Pt(100), Pt(200), Pt(250), Pt(220)>>],
      [field_name |-> "acepto", field_type |-> 2, field_value |-> <<>>,
       rect |-> <<Pt(250), Pt(220), Pt(100), Pt(200)>>],
      [field_name |-> "", field_type |-> 6, field_value |-> <<"a", "b">>,
       rect |-> <<Pt(100), Pt(300), Pt(100), Pt(320)>>] }

\* what the vector detector may return for a page
PageVectorSet == { <<>>, << <<Pt(130), Pt(300), Pt(106)>> >> }

\* what the raster detector may return for a page when it does not fail
PageRasterSet == { <<>>, << <<HalfPt(261), Pt(300), Pt(107)>> >> }

\* labels the label extractor may accept: one with a line on its row, one with
\* no line near it and a bounding box of no height
PageLabelSet ==
    { [text |-> "Nombre", bbox |-> <<Pt(50), Pt(100), Pt(120), Pt(112)>>],
      [text |-> "Fecha", bbox |-> <<Pt(50), Pt(300), Pt(120), Pt(300)>>] }

\* the label lists of a page: every line of text is one entry of labels_found,
\* so no label comes twice with the same bounding box
PageLabelsSet ==
    { ls \in SeqsUpTo(PageLabelSet, MaxLabels) :
         \A i \in DOMAIN ls : \A j \in DOMAIN ls : i # j => ls[i] # ls[j] }

\* document.metadata title or the largest text of the first page, or None
TitleSet == { None, <<"Formulario">> }

-----------------------------------------------------------------------------
(* DocumentAnalyzer.analyze_pdf as a state machine *)

\* page_in before any page went through the visual pipeline
NoPage ==
    [page |-> -1, vector_lines |-> <<>>, opencv_lines |-> <<>>,
     opencv_fails |-> FALSE, labels_found |-> <<>>]

AnalyzerIdle ==
    /\ pc = "idle" /\ doc_state = "none" /\ n_pages = 0 /\ page_num = 0
    /\ progress_callback = FALSE
    /\ fields = <<>> /\ acroform_fields = <<>> /\ labels_seen = 0
    /\ title = None /\ raised = "" /\ calls = <<>> /\ result = NoResult
    /\ page_in = NoPage /\ opencv_failed = FALSE

Init ==
    /\ pc = "start" /\ doc_state = "none" /\ n_pages = 0 /\ page_num = 0
    /\ progress_callback \in BOOLEAN
    /\ fields = <<>> /\ acroform_fields = <<>> /\ labels_seen = 0
    /\ title = None /\ raised = "" /\ calls = <<>> /\ result = NoResult
    /\ page_in = NoPage /\ opencv_failed = FALSE
    /\ MergeIdle /\ AssocIdle /\ UIIdle /\ HandlerIdle /\ LabelIdle /\ ExtraIdle

\* except Exception as e: return {...}; doc.close() is not reached
Except(e) ==
    /\ raised' = e
    /\ result' = FailureResult(e)
    /\ pc' = "done"

\* lines 53-56: fitz.open succeeds and _extract_acroform_fields is entered
Open ==
    /\ pc = "start"
    /\ \E n \in 0..MaxPages : n_pages' = n
    /\ doc_state' = "open"
    /\ calls' = calls \o <<Call("open", 0, 0), Call("acroform", 0, 0)>>
    /\ pc' = "acroform"
    /\ UNCHANGED <<page_num, progress_callback, fields, acroform_fields,
                   labels_seen, title, raised, result, page_in, opencv_failed,
                   mergeVars, assocVars, uiVars, handlerVars, labelVars, extraVars>>

\* line 53: fitz.open raises (corrupt file, wrong format)
OpenRaises ==
    /\ pc = "start"
    /\ calls' = Append(calls, Call("open", 0, 0))
    /\ Except("open")
    /\ UNCHANGED <<doc_state, n_pages, page_num, progress_callback, fields,
                   acroform_fields, labels_seen, title, page_in, opencv_failed,
                   mergeVars, assocVars, uiVars, handlerVars, labelVars, extraVars>>

\* lines 105-138: one page of _extract_acroform_fields
AcroformPage ==
    /\ pc = "acroform" /\ page_num < n_pages
    /\ \E widgets \in SeqsUpTo(WidgetSet, MaxWidgets) :
          fields' = WidgetsToFields(widgets, 1, fields, page_num)
    /\ calls' = Append(calls, Call("widgets", page_num + 1, n_pages))
    /\ page_num' = page_num + 1
    /\ UNCHANGED <<pc, doc_state, n_pages, progress_callback, acroform_fields,
                   labels_seen, title, raised, result, page_in, opencv_failed,
                   mergeVars, assocVars, uiVars, handlerVars, labelVars, extraVars>>

\* lines 106-116: loading the page or reading a widget raises
AcroformRaises ==
    /\ pc = "acroform" /\ page_num < n_pages
    /\ calls' = Append(calls, Call("widgets", page_num + 1, n_pages))
    /\ Except("acroform")
    /\ UNCHANGED <<doc_state, n_pages, page_num, progress_callback, fields,
                   acroform_fields, labels_seen, title, page_in, opencv_failed,
                   mergeVars, assocVars, uiVars, handlerVars, labelVars, extraVars>>

\* lines 111-136: reading a property of a widget raises; nothing catches it
\* inside _extract_acroform_fields, so the widgets read before it are lost
AcroformWidgetRaises ==
    /\ pc = "acroform" /\ page_num < n_pages
    /\ \E widgets \in SeqsUpTo(WidgetSet, MaxWidgets) :
          fields' = WidgetsToFields(widgets, 1, fields, page_num)
    /\ calls' = Append(calls, Call("widgets", page_num + 1, n_pages))
    /\ Except("widget")
    /\ UNCHANGED <<doc_state, n_pages, page_num, progress_callback,
                   acroform_fields, labels_seen, title, page_in, opencv_failed,
                   mergeVars, assocVars, uiVars, handlerVars, labelVars, extraVars>>

\* lines 56-65: _extract_acroform_fields returns; the branch on its result
AcroformReturns ==
    /\ pc = "acroform" /\ page_num = n_pages
    /\ acroform_fields' = fields
    /\ IF RunsVisual(fields)
       THEN /\ pc' = "visual"
            /\ fields' = <<>>
            /\ page_num' = 0
       ELSE /\ pc' = "title"
            /\ UNCHANGED <<fields, page_num>>
    /\ UNCHANGED <<doc_state, n_pages, progress_callback, labels_seen, title,
                   raised, calls, result, page_in, opencv_failed,
                   mergeVars, assocVars, uiVars, handlerVars, labelVars, extraVars>>

\* lines 150-237: one page of _extract_visual_fields; a failure of the raster
\* detector is caught inside it (lines 344-346) and leaves no raster line
VisualPage ==
    /\ pc = "visual" /\ page_num < n_pages
    /\ \E vl \in PageVectorSet, ol \in PageRasterSet, opencv_fails \in BOOLEAN,
          labels_found \in PageLabelsSet :
          LET all_lines == merge_detected_lines(vl,
                              detect_horizontal_lines_opencv(ol, opencv_fails))
          IN /\ fields' = fields \o PageFields(labels_found, all_lines, page_num)
             /\ labels_seen' = labels_seen + Len(labels_found)
             /\ page_in' = [page |-> page_num, vector_lines |-> vl,
                            opencv_lines |-> ol, opencv_fails |-> opencv_fails,
                            labels_found |-> labels_found]
             /\ opencv_failed' = (opencv_failed \/ opencv_fails)
    /\ calls' = calls \o PageCalls(progress_callback, page_num, n_pages)
    /\ page_num' = page_num + 1
    /\ UNCHANGED <<pc, doc_state, n_pages, progress_callback, acroform_fields,
                   title, raised, result,
                   mergeVars, assocVars, uiVars, handlerVars, labelVars, extraVars>>

\* lines 151-167: the progress callback, loading the page, get_drawings or
\* get_text raises on the page
VisualRaises ==
    /\ pc = "visual" /\ page_num < n_pages
    /\ \E site \in {"progress", "page", "vector", "labels"} :
          /\ (site = "progress") => progress_callback
          /\ calls' = calls \o CallsUpTo(site, progress_callback, page_num, n_pages)
          /\ Except(site)
    /\ UNCHANGED <<doc_state, n_pages, page_num, progress_callback, fields,
                   acroform_fields, labels_seen, title, page_in, opencv_failed,
                   mergeVars, assocVars, uiVars, handlerVars, labelVars, extraVars>>

\* line 60-62: _extract_visual_fields returns
VisualReturns ==
    /\ pc = "visual" /\ page_num = n_pages
    /\ pc' = "title"
    /\ UNCHANGED <<doc_state, n_pages, page_num, progress_callback, fields,
                   acroform_fields, labels_seen, title, raised, calls, result,
                   page_in, opencv_failed,
                   mergeVars, assocVars, uiVars, handlerVars, labelVars, extraVars>>

\* lines 68-81: _detect_title, page_count = len(doc), doc.close(), return
DetectTitleAndReturn ==
    /\ pc = "title"
    /\ \E t \in TitleSet :
          /\ title' = t
          /\ result' = SuccessResult(fields, t, acroform_fields # <<>>, n_pages)
    /\ calls' = calls \o <<Call("title", 0, n_pages), Call("close", 0, n_pages)>>
    /\ doc_state' = "closed"
    /\ pc' = "done"
    /\ UNCHANGED <<n_pages, page_num, progress_callback, fields, acroform_fields,
                   labels_seen, raised, page_in, opencv_failed,
                   mergeVars, assocVars, uiVars, handlerVars, labelVars, extraVars>>

\* line 68: _detect_title raises
DetectTitleRaises ==
    /\ pc = "title"
    /\ calls' = Append(calls, Call("title", 0, n_pages))
    /\ Except("title")
    /\ UNCHANGED <<doc_state, n_pages, page_num, progress_callback, fields,
                   acroform_fields, labels_seen, title, page_in, opencv_failed,
                   mergeVars, assocVars, uiVars, handlerVars, labelVars, extraVars>>

Next ==
    \/ Open
    \/ OpenRaises
    \/ AcroformPage
    \/ AcroformRaises
    \/ AcroformWidgetRaises
    \/ AcroformReturns
    \/ VisualPage
    \/ VisualRaises
    \/ VisualReturns
    \/ DetectTitleAndReturn
    \/ DetectTitleRaises

Spec == Init /\ [][Next]_vars

-----------------------------------------------------------------------------
(* PDFMasterPro.select_pdf, run_analysis and _handle_analysis_result         *)
(* (PDF_MASTER_PRO.py).  The main thread runs select_pdf and the callbacks  *)
(* queued with self.after; each analysis runs in a thread of its own.       *)

\* presses of the "Abrir PDF de Fondo" button
MaxSelects == 2

\* the files the user may pick
PathSet == {"a.pdf", "b.pdf"}

\* what one run of analyze_pdf may do: the progress callbacks it issues and
\* the dictionary it returns
PlanSet ==
    { [progress |-> 0, result |-> FailureResult("open")],
      [progress |-> 1, result |-> FailureResult("labels")],
      [progress |-> 1, result |-> SuccessResult(<<>>, None, FALSE, 1)],
      [progress |-> 1,
       result |-> SuccessResult(
                    PageFields(<<[text |-> "Nombre",
                                  bbox |-> <<Pt(50), Pt(100), Pt(120), Pt(112)>>]>>,
                               <<>>, 0),
                    None, FALSE, 1)],
      [progress |-> 0,
       result |-> SuccessResult(
                    WidgetsToFields(<<[field_name |-> "nombre", field_type |-> 4,
                                       field_value |-> <<>>,
                                       rect |-> <<Pt(100), Pt(200), Pt(250), Pt(220)>>]>>,
                                    1, <<>>, 0),
                    <<"Formulario">>, TRUE, 1)] }

\* line 239: f"PDF Cargado: {os.path.basename(bg_path)}"
StatusLoaded(bg_path) == Status(<<"PDF Cargado: ", bg_path>>, "#34C759")

\* line 277: f"{total} campos cargados - {os.path.basename(bg_path)}"
StatusImported(total, bg_path) ==
    Status(<<ToString(total), " campos cargados - ", bg_path>>, "#34C759")

\* line 208: f"Analizando pág. {current}/{total}..."
StatusProgress(current, total) ==
    Status(<<"Analizando pag. ", ToString(current), "/", ToString(total)>>, "#FF9500")

\* the status _handle_analysis_result leaves, lines 223-239 and 277; `yes` is
\* the user's answer to "¿Deseas importarlos automáticamente?"
HandledStatus(res, bg_path, yes) ==
    IF res.success /\ res.fields # <<>> /\ yes
    THEN StatusImported(Len(res.fields), bg_path)
    ELSE StatusLoaded(bg_path)

\* what kind of result a dictionary is
ResultKind(res) ==
    IF ~res.success THEN "failed"
    ELSE IF res.fields = <<>> THEN "empty" ELSE "fields"

\* lines 71-73, 88 and 140-141: the editor tab as _setup_editor_tab leaves it
InitUI ==
    /\ UIIdle
    /\ MergeIdle /\ AssocIdle /\ AnalyzerIdle /\ HandlerIdle /\ LabelIdle /\ ExtraIdle

\* _update_page_info, lines 155-172, with a background PDF that exists
UpdatePageInfo(cur, total) == <<cur + 1, total>>

\* select_pdf when select_bg_pdf returns False: the dialog was cancelled
SelectPdfCancelled ==
    /\ n_selects < MaxSelects
    /\ n_selects' = n_selects + 1
    /\ UNCHANGED <<status_label, bg_pdf_path, total_pages, current_page,
                   page_label, title_entry, editor_fields, threads, after_queue,
                   ui_log, mergeVars, assocVars, analyzerVars,
                   handlerVars, labelVars, extraVars>>

\* select_pdf, lines 184-219: the file is chosen, the page count read (1 when
\* the file cannot be opened) and the analysis thread started
SelectPdf ==
    /\ n_selects < MaxSelects
    /\ n_selects' = n_selects + 1
    /\ \E path \in PathSet, plan \in PlanSet :
          /\ bg_pdf_path' = path
          /\ total_pages' = IF plan.result.success THEN plan.result.page_count ELSE 1
          /\ threads' = threads \cup
                {[id |-> n_selects + 1, bg_path |-> path, plan |-> plan, sent |-> 0]}
    /\ current_page' = 0
    /\ status_label' = Status(<<"Detectando campos...">>, "#FF9500")
    /\ UNCHANGED <<page_label, title_entry, editor_fields, after_queue, ui_log,
                   mergeVars, assocVars, analyzerVars,
                   handlerVars, labelVars, extraVars>>

\* run_analysis, lines 203-204: importing the analyzer fails; lines 215-217
RunAnalysisImportFails ==
    /\ \E t \in threads :
          /\ t.sent = 0
          /\ threads' = threads \ {t}
          /\ after_queue' = Append(after_queue,
                [tid |-> t.id, kind |-> "error", bg_path |-> t.bg_path,
                 current |-> 0, total |-> 0, result |-> NoResult])
    /\ UNCHANGED <<status_label, bg_pdf_path, total_pages, current_page,
                   page_label, title_entry, editor_fields, ui_log, n_selects,
                   mergeVars, assocVars, analyzerVars,
                   handlerVars, labelVars, extraVars>>

\* progress, lines 206-210, called by analyze_pdf from the analysis thread
RunAnalysisProgress ==
    /\ \E t \in threads :
          /\ t.sent < t.plan.progress
          /\ threads' = (threads \ {t}) \cup {[t EXCEPT !.sent = t.sent + 1]}
          /\ after_queue' = Append(after_queue,
                [tid |-> t.id, kind |-> "progress", bg_path |-> t.bg_path,
                 current |-> t.sent + 1, total |-> t.plan.progress,
                 result |-> NoResult])
    /\ UNCHANGED <<status_label, bg_pdf_path, total_pages, current_page,
                   page_label, title_entry, editor_fields, ui_log, n_selects,
                   mergeVars, assocVars, analyzerVars,
                   handlerVars, labelVars, extraVars>>

\* run_analysis, lines 212-214: analyze_pdf returns and the result is queued
\* for the main thread; the analysis thread ends
RunAnalysisReturns ==
    /\ \E t \in threads :
          /\ t.sent = t.plan.progress
          /\ threads' = threads \ {t}
          /\ after_queue' = Append(after_queue,
                [tid |-> t.id, kind |-> "result", bg_path |-> t.bg_path,
                 current |-> 0, total |-> 0, result |-> t.plan.result])
    /\ UNCHANGED <<status_label, bg_pdf_path, total_pages, current_page,
                   page_label, title_entry, editor_fields, ui_log, n_selects,
                   mergeVars, assocVars, analyzerVars,
                   handlerVars, labelVars, extraVars>>

\* the callbacks of one thread run in the order it queued them; callbacks of
\* different threads may run in either order
Due(i) == \A j \in 1..(i - 1) : after_queue[j].tid # after_queue[i].tid

Remove(s, i) == SubSeq(s, 1, i - 1) \o SubSeq(s, i + 1, Len(s))

\* the main thread runs a queued progress lambda, line 207
DispatchProgress ==
    /\ \E i \in 1..Len(after_queue) :
          /\ Due(i) /\ after_queue[i].kind = "progress"
          /\ status_label' = StatusProgress(after_queue[i].current, after_queue[i].total)
          /\ after_queue' = Remove(after_queue, i)
    /\ UNCHANGED <<bg_pdf_path, total_pages, current_page, page_label,
                   title_entry, editor_fields, threads, ui_log, n_selects,
                   mergeVars, assocVars, analyzerVars,
                   handlerVars, labelVars, extraVars>>

\* the main thread runs the queued error lambda, line 217
DispatchError ==
    /\ \E i \in 1..Len(after_queue) :
          /\ Due(i) /\ after_queue[i].kind = "error"
          /\ status_label' = Status(<<"Error en deteccion">>, "red")
          /\ after_queue' = Remove(after_queue, i)
    /\ UNCHANGED <<bg_pdf_path, total_pages, current_page, page_label,
                   title_entry, editor_fields, threads, ui_log, n_selects,
                   mergeVars, assocVars, analyzerVars,
                   handlerVars, labelVars, extraVars>>

\* _handle_analysis_result, lines 221-239, with _import_fields_sequentially,
\* lines 241-280, when the user accepts the import
HandleAnalysisResult ==
    /\ \E i \in 1..Len(after_queue), yes \in BOOLEAN :
          LET cb == after_queue[i]
              import == cb.result.success /\ cb.result.fields # <<>> /\ yes
          IN /\ Due(i) /\ cb.kind = "result"
             /\ status_label' = HandledStatus(cb.result, cb.bg_path, yes)
             /\ title_entry' = IF import /\ cb.result.title # None
                               THEN cb.result.title ELSE title_entry
             /\ editor_fields' = IF import
                                 THEN [k \in 1..Len(cb.result.fields) |->
                                          cb.result.fields[k].label]
                                 ELSE editor_fields
             /\ ui_log' = ui_log \cup
                   {[kind |-> ResultKind(cb.result), bg_path |-> cb.bg_path,
                     status |-> HandledStatus(cb.result, cb.bg_path, yes)]}
             /\ after_queue' = Remove(after_queue, i)
    /\ page_label' = UpdatePageInfo(current_page, total_pages)
    /\ UNCHANGED <<bg_pdf_path, total_pages, current_page, threads, n_selects,
                   mergeVars, assocVars, analyzerVars,
                   handlerVars, labelVars, extraVars>>

NextUI ==
    \/ SelectPdfCancelled
    \/ SelectPdf
    \/ RunAnalysisImportFails
    \/ RunAnalysisProgress
    \/ RunAnalysisReturns
    \/ DispatchProgress
    \/ DispatchError
    \/ HandleAnalysisResult

SpecUI == InitUI /\ [][NextUI]_vars

-----------------------------------------------------------------------------
(* SpecMerge: _merge_detected_lines applied to every pair of bounded lists *)

InitMerge ==
    /\ vector_lines \in SeqsUpTo(MergeLineSet, MaxMergeLines)
    /\ opencv_lines \in SeqsUpTo(MergeLineSet, MaxMergeLines)
    /\ merged = <<>>
    /\ mpc = "input"
    /\ AssocIdle /\ AnalyzerIdle /\ UIIdle /\ HandlerIdle /\ LabelIdle /\ ExtraIdle

MergeLines ==
    /\ mpc = "input"
    /\ merged' = merge_detected_lines(vector_lines, opencv_lines)
    /\ mpc' = "merged"
    /\ UNCHANGED <<vector_lines, opencv_lines, assocVars, analyzerVars, uiVars,
                   handlerVars, labelVars, extraVars>>

NextMerge == MergeLines

SpecMerge == InitMerge /\ [][NextMerge]_vars

-----------------------------------------------------------------------------
(* SpecAssoc: the association of one label with every bounded line list *)

InitAssoc ==
    /\ lines \in SeqsUpTo(AssocLineSet, MaxAssocLines)
    /\ label_bbox \in AssocLabelSet
    /\ same_row_line = None /\ closest_line = None
    /\ below_consulted = FALSE /\ field_box = NoBox
    /\ apc = "input"
    /\ MergeIdle /\ AnalyzerIdle /\ UIIdle /\ HandlerIdle /\ LabelIdle /\ ExtraIdle

Associate ==
    /\ apc = "input"
    /\ LET r == AssociateLabel(label_bbox, lines)
       IN /\ same_row_line' = r.same_row
          /\ below_consulted' = r.below_consulted
          /\ closest_line' = r.closest
          /\ field_box' = r.box
    /\ apc' = "done"
    /\ UNCHANGED <<lines, label_bbox, mergeVars, analyzerVars, uiVars,
                   handlerVars, labelVars, extraVars>>

NextAssoc == Associate

SpecAssoc == InitAssoc /\ [][NextAssoc]_vars

-----------------------------------------------------------------------------
(* Claims on the line merger and the label-line associator *)

\* the duplicate relation as the specification words it: Y closer than 4pt and
\* both X endpoints closer than 10pt
ClaimDuplicates(a, b) ==
    /\ Abs(a[3] - b[3]) < Pt(4)
    /\ Abs(a[1] - b[1]) < Pt(10)
    /\ Abs(a[2] - b[2]) < Pt(10)

ExampleLineA == <<Pt(10), Pt(100), Pt(50)>>
ExampleLineB == <<HalfPt(21), Pt(99), Pt(51)>>

\* C7: the output of _merge_detected_lines holds no two distinct entries that
\* duplicate each other, and lists made only of (10,100,50) and (10.5,99,51)
\* merge into exactly one line.
C7_MergedHasNoDuplicates ==
    mpc = "merged" =>
        /\ \A i \in 1..Len(merged) : \A j \in 1..Len(merged) :
                i # j => ~ClaimDuplicates(merged[i], merged[j])
        /\ LET all == vector_lines \o opencv_lines
           IN (/\ all # <<>>
               /\ \A k \in 1..Len(all) : all[k] \in {ExampleLineA, ExampleLineB})
              => Len(merged) = 1

\* a duplicate was dropped between two lines that were kept, and the example
\* pair was merged into one line
C7_Witness ==
    /\ mpc = "merged"
    /\ vector_lines = <<ExampleLineA, <<Pt(200), Pt(250), Pt(50)>> >>
    /\ opencv_lines = <<ExampleLineB>>
    /\ Len(merged) = 2

\* strategy 1 as the specification words it
ClaimQualifies1(bbox, line) ==
    /\ Abs(2 * line[3] - (bbox[2] + bbox[4])) < Pt(50)
    /\ line[1] >= bbox[1] - Pt(10)

\* twice vertical_distance + 0.5 * max(0, line_left - label_right)
ClaimScore1(bbox, line) ==
    Abs(2 * line[3] - (bbox[2] + bbox[4]))
        + (IF line[1] > bbox[3] THEN line[1] - bbox[3] ELSE 0)

ClaimQ1 == {k \in 1..Len(lines) : ClaimQualifies1(label_bbox, lines[k])}

ClaimBoxOf(line) ==
    [x |-> line[1], y |-> line[3], w |-> line[2] - line[1], h |-> Pt(20)]

\* C8: strategy 1 returns None iff no line qualifies, otherwise a qualifying
\* line of minimal score, and the field box is built from that line.
C8_SameRowStrategy ==
    apc = "done" =>
        /\ (same_row_line = None <=> ClaimQ1 = {})
        /\ ClaimQ1 # {} =>
              /\ \E k \in ClaimQ1 :
                    /\ lines[k] = same_row_line
                    /\ \A j \in ClaimQ1 :
                          ClaimScore1(label_bbox, lines[k])
                              <= ClaimScore1(label_bbox, lines[j])
              /\ field_box = ClaimBoxOf(same_row_line)

\* the specification's example, with a second qualifying line listed first:
\* label (50,100,120,112) and line (130,300,106) give {130,106,170,20}
C8_Witness ==
    /\ apc = "done"
    /\ label_bbox = <<Pt(50), Pt(100), Pt(120), Pt(112)>>
    /\ lines = << <<Pt(40), Pt(200), Pt(130)>>, <<Pt(130), Pt(300), Pt(106)>> >>
    /\ field_box = [x |-> Pt(130), y |-> Pt(106), w |-> Pt(170), h |-> Pt(20)]

\* strategy 2 as the claim words it: at or below the label's bottom, at most
\* 30pt below, horizontal gap at most 50pt
ClaimGap(bbox, line) ==
    IF line[1] > bbox[3] THEN line[1] - bbox[3]
    ELSE IF line[2] < bbox[1] THEN bbox[1] - line[2]
    ELSE 0

ClaimQualifies2(bbox, line) ==
    /\ line[3] >= bbox[4]
    /\ line[3] - bbox[4] <= Pt(30)
    /\ ClaimGap(bbox, line) <= Pt(50)

\* ten times vertical_distance + 0.3 * horizontal_distance
ClaimScore2(bbox, line) == 10 * (line[3] - bbox[4]) + 3 * ClaimGap(bbox, line)

ClaimQ2 == {k \in 1..Len(lines) : ClaimQualifies2(label_bbox, lines[k])}

\* C9 (as claimed): when strategy 2 is consulted it returns None iff no line is
\* below the label within 30pt vertically and 50pt (inclusive) horizontally,
\* otherwise such a line of minimal score.
C9_BelowStrategyAsClaimed ==
    (apc = "done" /\ below_consulted) =>
        /\ (closest_line = None <=> ClaimQ2 = {})
        /\ ClaimQ2 # {} =>
              \E k \in ClaimQ2 :
                    /\ lines[k] = closest_line
                    /\ \A j \in ClaimQ2 :
                          ClaimScore2(label_bbox, lines[k])
                              <= ClaimScore2(label_bbox, lines[j])

\* C10: strategy 2 is consulted only when strategy 1 found no line; whenever a
\* line qualifies for strategy 1 the field box is built from a strategy-1 line.
C10_SameRowPreferred ==
    apc = "done" =>
        /\ below_consulted => ClaimQ1 = {}
        /\ ClaimQ1 # {} =>
              /\ ~below_consulted
              /\ \E k \in ClaimQ1 :
                    /\ field_box = ClaimBoxOf(lines[k])
                    /\ closest_line = lines[k]
                    /\ \A j \in ClaimQ1 :
                          ClaimScore1(label_bbox, lines[k])
                              <= ClaimScore1(label_bbox, lines[j])

\* a strategy-1 line was used although another line qualifies for strategy 2
\* with a smaller score
C10_Witness ==
    /\ apc = "done"
    /\ closest_line # None
    /\ ~below_consulted
    /\ \E k \in 1..Len(lines) :
          /\ lines[k] # closest_line
          /\ AcceptsBelow(label_bbox, lines[k])
          /\ 2 * TotalDistanceBelow10(label_bbox, lines[k])
                < 10 * TotalDistance2(label_bbox, closest_line)

-----------------------------------------------------------------------------
(* Claims on DocumentAnalyzer.analyze_pdf *)

\* the components of the visual pipeline
VisualOps == {"vector", "opencv", "merge", "labels"}

VisualInvoked == \E i \in 1..Len(calls) : calls[i].op \in VisualOps

\* AcroForm extraction is entered before any other component works on the
\* open document
AcroformRunsFirst ==
    \A i \in 1..Len(calls) :
        calls[i].op \in (VisualOps \cup {"progress", "title", "widgets"})
            => \E j \in 1..(i - 1) : calls[j].op = "acroform"

\* C1 (as claimed): AcroForm extraction runs first, and whenever it returns at
\* least one field the result is success with has_acroform and exactly those
\* fields, and no component of the visual pipeline is invoked.
C1_AcroformShortCircuitAsClaimed ==
    /\ AcroformRunsFirst
    /\ (pc = "done" /\ acroform_fields # <<>>) =>
          /\ result.success
          /\ result.has_acroform
          /\ result.fields = acroform_fields
          /\ ~VisualInvoked

\* C1 (amended): AcroForm extraction runs first, and whenever it returns at
\* least one field no component of the visual pipeline is invoked and, unless
\* title detection raises, the result is success with has_acroform and exactly
\* those fields; when title detection raises the result is the failure result.
C1_AcroformShortCircuit ==
    /\ AcroformRunsFirst
    /\ acroform_fields # <<>> => ~VisualInvoked
    /\ (pc = "done" /\ acroform_fields # <<>>) =>
          /\ raised \in {"", "title"}
          /\ raised = "" =>
                /\ result.success
                /\ result.has_acroform
                /\ result.fields = acroform_fields
          /\ raised = "title" => ~result.success

\* two AcroForm fields on two pages returned with their page indices
C1_Witness ==
    /\ pc = "done"
    /\ n_pages = 2
    /\ Len(acroform_fields) = 2
    /\ result.success /\ result.has_acroform
    /\ Len(result.fields) = 2
    /\ result.fields[1].abs_pos.page = 0
    /\ result.fields[2].abs_pos.page = 1

\* C2: whatever step raises (open, AcroForm extraction, the progress callback,
\* a page of the visual pipeline, title detection), analyze_pdf returns
\* success=false with the error, an empty field list, has_acroform=false and
\* page_count=0.
C2_ExceptionsBecomeFailureResult ==
    raised # "" =>
        /\ pc = "done"
        /\ result = [fields |-> <<>>, title |-> None, has_acroform |-> FALSE,
                     page_count |-> 0, success |-> FALSE, error |-> raised]

\* label extraction raised on the second page after the first page had
\* yielded fields, and none of them is returned
C2_Witness ==
    /\ pc = "done"
    /\ raised = "labels"
    /\ page_num = 1
    /\ fields # <<>>
    /\ result.fields = <<>>

\* C3 (as claimed): once the document was opened, its handle is closed when
\* analyze_pdf returns, on every exit path.
C3_HandleClosedOnReturnAsClaimed ==
    pc = "done" => doc_state # "open"

\* C4: a document that is read without any step raising, has no AcroForm
\* widget and yields no label is a success: empty field list,
\* has_acroform=false, page_count = number of pages, no error key.
C4_NoFieldsIsSuccess ==
    (pc = "done" /\ raised = "" /\ acroform_fields = <<>> /\ labels_seen = 0) =>
        /\ result.success
        /\ result.fields = <<>>
        /\ ~result.has_acroform
        /\ result.page_count = n_pages
        /\ "error" \notin DOMAIN result

\* a two-page document with lines but neither widgets nor labels went through
\* the visual pipeline
C4_Witness ==
    /\ pc = "done" /\ raised = ""
    /\ n_pages = 2
    /\ acroform_fields = <<>> /\ labels_seen = 0
    /\ \E i \in 1..Len(calls) : calls[i].op = "labels" /\ calls[i].page = 2
    /\ result.fields = <<>>

\* C6 (as claimed): every field the analyzer produces has w > 0, h > 0 and a
\* page index of the analysed document.
C6_FieldBoxesValidAsClaimed ==
    \A i \in 1..Len(fields) :
        /\ fields[i].abs_pos.w > 0
        /\ fields[i].abs_pos.h > 0
        /\ fields[i].abs_pos.page >= 0
        /\ fields[i].abs_pos.page < n_pages

-----------------------------------------------------------------------------
(* Claims on the reaction of the UI to an analysis result *)

\* C5 (as claimed): a result with success=false and a result with success=true
\* and no field, handled for the same file, never leave the same status.
C5_FailureShownDifferentlyAsClaimed ==
    \A e1 \in ui_log : \A e2 \in ui_log :
        (e1.kind = "failed" /\ e2.kind = "empty" /\ e1.bg_path = e2.bg_path)
            => e1.status # e2.status

-----------------------------------------------------------------------------
(* Claims on the visual pipeline of analyze_pdf *)

\* analyze_pdf is in, or has returned from, a visual pass no step of which
\* raised
VisualPassRunning ==
    /\ acroform_fields = <<>>
    /\ pc \in {"visual", "title"} \/ (pc = "done" /\ raised = "")

\* the estimated box the specification gives a label no line is found for
ClaimFallbackBox(bbox, page) ==
    [x |-> bbox[3] + Pt(5), y |-> bbox[2], w |-> Pt(150),
     h |-> bbox[4] - bbox[2], page |-> page]

\* the lines the associator was given on the last page analysed
LastPageLines ==
    merge_detected_lines(page_in.vector_lines,
        IF page_in.opencv_fails THEN <<>> ELSE page_in.opencv_lines)

\* the fields appended for the last page analysed
LastPageFields ==
    SubSeq(fields, Len(fields) - Len(page_in.labels_found) + 1, Len(fields))

\* C11: every label the label extractor accepts on a page yields exactly one
\* field of that page, in order, so there are as many visual fields as
\* accepted labels; a label neither strategy finds a line for gets the
\* fallback box {label_right + 5, label_top, 150, label_bottom - label_top}
C11_EveryLabelYieldsOneField ==
    VisualPassRunning =>
        /\ Len(fields) = labels_seen
        /\ Len(page_in.labels_found) <= Len(fields)
        /\ \A i \in 1..Len(page_in.labels_found) :
              LET l == page_in.labels_found[i]
                  f == LastPageFields[i]
              IN /\ f.label = l.text
                 /\ f.abs_pos.page = page_in.page
                 /\ (/\ find_closest_line(l.bbox, LastPageLines, TRUE, FALSE) = None
                     /\ find_closest_line_below(l.bbox, LastPageLines) = None)
                       => f.abs_pos = ClaimFallbackBox(l.bbox, page_in.page)

\* a finished pass of two pages in which a page with a vector line had two
\* labels, one of them with no line near it
C11_Witness ==
    /\ pc = "done" /\ raised = "" /\ n_pages = 2 /\ labels_seen >= 3
    /\ page_in.vector_lines # <<>> /\ Len(page_in.labels_found) = 2
    /\ \E i \in 1..2 :
          /\ find_closest_line(page_in.labels_found[i].bbox, LastPageLines, TRUE, FALSE) = None
          /\ find_closest_line_below(page_in.labels_found[i].bbox, LastPageLines) = None
          /\ LastPageFields[i].abs_pos.w = Pt(150)
    /\ \E i \in 1..2 : LastPageFields[i].abs_pos.h = field_h_standard

\* C18: when the raster line detector fails on a page, the page contributes
\* no raster line while its vector lines are detected and its labels are
\* extracted and associated, the next page is analysed, and analyze_pdf
\* returns success=true unless some other step raises
C18_RasterFailureIsLocal ==
    /\ (VisualPassRunning /\ page_in.page >= 0 /\ page_in.opencv_fails) =>
          /\ LastPageFields =
                PageFields(page_in.labels_found,
                           merge_detected_lines(page_in.vector_lines, <<>>),
                           page_in.page)
          /\ \A op \in {"vector", "opencv", "merge", "labels"} :
                \E i \in DOMAIN calls :
                   calls[i] = Call(op, page_in.page + 1, n_pages)
    /\ (pc = "visual" /\ page_in.page >= 0 /\ page_in.opencv_fails) =>
          page_num = page_in.page + 1
    /\ (pc = "done" /\ opencv_failed /\ raised = "") =>
          /\ result.success
          /\ result.page_count = n_pages
          /\ Len(result.fields) = labels_seen

\* a pass of two pages that returned success with fields although the raster
\* detector failed on the first page, where it would have found a line
C18_Witness ==
    /\ pc = "done" /\ raised = "" /\ n_pages = 2 /\ result.success
    /\ opencv_failed /\ page_in.page = 1 /\ ~page_in.opencv_fails
    /\ \E i \in DOMAIN result.fields :
          /\ result.fields[i].abs_pos.page = 0
          /\ result.fields[i].abs_pos.w = Pt(150)
    /\ \E i \in DOMAIN result.fields :
          /\ result.fields[i].abs_pos.page = 1
          /\ result.fields[i].abs_pos.h = field_h_standard

\* the progress callbacks issued so far, in order
ProgressCalls == SelectSeq(calls, LAMBDA c : c.op = "progress")

\* analyze_pdf returned after entering the visual pipeline
VisualPassEntered ==
    /\ pc = "done" /\ acroform_fields = <<>>
    /\ raised \notin {"open", "acroform", "widget"}

\* C19 as claimed: a visual pass over N pages invokes the progress callback
\* exactly N times, with (k, N) for k = 1..N in increasing order
C19_ProgressExactlyNAsClaimed ==
    (VisualPassEntered /\ progress_callback) =>
        ProgressCalls = [k \in 1..n_pages |-> Call("progress", k, n_pages)]

\* C19: the progress callback is invoked with (k, N) for k = 1..m in
\* increasing order, once for each page the visual pass starts and before any
\* component analyses that page; m <= N, and m = N when no step raises; it
\* is not invoked when AcroForm fields were found, and the result is returned
\* only after the last invocation
C19_ProgressOncePerPageStarted ==
    /\ \A k \in DOMAIN ProgressCalls : ProgressCalls[k] = Call("progress", k, n_pages)
    /\ Len(ProgressCalls) <= n_pages
    /\ (acroform_fields # <<>> \/ ~progress_callback) => ProgressCalls = <<>>
    /\ progress_callback =>
          \A j \in DOMAIN calls :
             calls[j].op \in VisualOps =>
                \E i \in 1..(j - 1) : calls[i] = Call("progress", calls[j].page, n_pages)
    /\ (VisualPassEntered /\ progress_callback /\ raised = "") =>
          Len(ProgressCalls) = n_pages
    /\ result # NoResult => pc = "done"

\* a pass over two pages that completed and announced both, in order
C19_Witness ==
    /\ pc = "done" /\ raised = "" /\ acroform_fields = <<>> /\ n_pages = 2
    /\ ProgressCalls = <<Call("progress", 1, 2), Call("progress", 2, 2)>>
    /\ result.success

\* C17 as claimed, on the analyzer's own extractor: when reading a widget
\* raises, that widget alone is skipped, the other fields are returned and the
\* caller sees no error
C17_MalformedFieldSkippedAsClaimed ==
    (pc = "done" /\ raised = "widget") =>
        /\ result.success
        /\ "error" \notin DOMAIN result
        /\ result.fields = fields

-----------------------------------------------------------------------------
(* Claims on PDFMasterPro.select_pdf *)

\* C20 as claimed: at most one analysis thread is running at any time: once
\* select_pdf has started one, no other is started until it has queued its
\* result for the main thread
C20_OneAnalysisInFlightAsClaimed == Cardinality(threads) <= 1

-----------------------------------------------------------------------------
(* AcroFormHandler (src/core/acroform_handler.py): extract_fields over the   *)
(* field objects of /AcroForm /Fields.  A field object is a record: FT is   *)
(* the /FT name ("" when absent), Ff the /Ff flags, Rect the /Rect array in *)
(* PDF space (<<>> when absent), P the index of the page /P refers to (-1   *)
(* when absent), raises whether reading one of its entries raises.          *)

\* field objects in the longest /Fields array
MaxFieldObjs == 2

\* ff & bit, for a flag bit that is a power of two
FlagSet(ff, bit) == (ff \div bit) % 2 = 1

\* the /Ff bits the handler reads
FF_REQUIRED == 2
FF_MULTILINE == 4096

\* _get_field_type, lines 117-141
get_field_type(field_obj) ==
    IF field_obj.FT = "" THEN "text"
    ELSE LET field_type == CASE field_obj.FT = "/Tx" -> "text"
                             [] field_obj.FT = "/Btn" -> "checkbox"
                             [] field_obj.FT = "/Ch" -> "dropdown"
                             [] field_obj.FT = "/Sig" -> "signature"
                             [] OTHER -> "text"
         IN IF field_type = "text" /\ FlagSet(field_obj.Ff, FF_MULTILINE)
            THEN "multiline" ELSE field_type

\* _get_field_page, lines 143-153: the page /P refers to, 0 when there is none
get_field_page(field_obj) == IF field_obj.P >= 0 THEN field_obj.P ELSE 0

\* _is_field_required, lines 174-179
is_field_required(field_obj) == FlagSet(field_obj.Ff, FF_REQUIRED)

\* _extract_field_data, lines 60-115: <<field_data>>, or <<>> for None when
\* the object has no /Rect (line 83) or reading it raises (line 113)
extract_field_data(field_obj) ==
    IF field_obj.raises \/ field_obj.Rect = <<>> THEN <<>>
    ELSE << [label |-> field_obj.T,
             type |-> get_field_type(field_obj),
             abs_pos |-> [x |-> field_obj.Rect[1],
                          y |-> field_obj.Rect[2],
                          w |-> field_obj.Rect[3] - field_obj.Rect[1],
                          h |-> field_obj.Rect[4] - field_obj.Rect[2],
                          page |-> get_field_page(field_obj)],
             default_value |-> field_obj.V,
             options |-> field_obj.Opt,
             required |-> is_field_required(field_obj),
             column |-> "full"] >>

\* the height of the page the fields are on: Letter, as get_page_dimensions
\* defaults to (line 195)
page_height == Pt(792)

\* a field object with a rectangle, 20pt high, whose upper edge is 72pt below
\* the top of the page
FieldObj(ft, ff) ==
    [T |-> "campo", FT |-> ft, Ff |-> ff,
     Rect |-> <<Pt(100), Pt(700), Pt(300), Pt(720)>>,
     P |-> 0, V |-> "", Opt |-> <<>>, raises |-> FALSE]

\* every type code with no flag, with the multiline flag and with the radio
\* flag (bit 16, 32768, which the handler never reads), a required field on
\* the second page, a field with no rectangle and one that cannot be read
FieldObjSet ==
    { FieldObj(ft, ff) : ft \in {"", "/Tx", "/Btn", "/Ch", "/Sig", "/Xx"},
                         ff \in {0, FF_MULTILINE, 32768} }
    \cup { [FieldObj("/Tx", FF_REQUIRED) EXCEPT !.P = 1, !.T = "nombre"],
           [FieldObj("/Ch", 0) EXCEPT !.P = -1, !.Opt = <<"a", "b">>],
           [FieldObj("/Tx", 0) EXCEPT !.Rect = <<>>],
           [FieldObj("/Btn", 0) EXCEPT !.raises = TRUE] }

\* AcroFormHandler(pdf_path) on a PDF with these /Fields; extract_fields is
\* entered (a PDF without /AcroForm or /Fields is the empty list)
InitHandler ==
    /\ field_objs \in SeqsUpTo(FieldObjSet, MaxFieldObjs)
    /\ h_index = 0 /\ h_fields = <<>> /\ h_last = <<>>
    /\ hpc = "extract"
    /\ MergeIdle /\ AssocIdle /\ AnalyzerIdle /\ UIIdle /\ LabelIdle /\ ExtraIdle

\* lines 51-55: one turn of the loop over acroform["/Fields"]
ExtractField ==
    /\ hpc = "extract" /\ h_index < Len(field_objs)
    /\ LET field_data == extract_field_data(field_objs[h_index + 1])
       IN /\ h_last' = field_data
          /\ h_fields' = h_fields \o field_data
    /\ h_index' = h_index + 1
    /\ UNCHANGED <<field_objs, hpc, mergeVars, assocVars, analyzerVars, uiVars,
                   labelVars, extraVars>>

\* lines 57-58: return fields
ExtractFieldsReturns ==
    /\ hpc = "extract" /\ h_index = Len(field_objs)
    /\ hpc' = "returned"
    /\ UNCHANGED <<field_objs, h_index, h_fields, h_last, mergeVars, assocVars,
                   analyzerVars, uiVars, labelVars, extraVars>>

NextHandler ==
    \/ ExtractField
    \/ ExtractFieldsReturns

SpecHandler == InitHandler /\ [][NextHandler]_vars

-----------------------------------------------------------------------------
(* Claims on the AcroForm extractors *)

\* the internal type the specification gives a type code and its flags
ClaimFieldType(ft, ff) ==
    CASE ft = "/Tx" -> IF FlagSet(ff, 4096) THEN "multiline" ELSE "text"
      [] ft = "/Btn" -> IF FlagSet(ff, 32768) THEN "radio" ELSE "checkbox"
      [] ft = "/Ch" -> "dropdown"
      [] ft = "/Sig" -> "signature"
      [] OTHER -> "text"

\* C15 as claimed: every extracted field has the type the table gives its
\* type code and flags: Tx text or multiline, Btn radio or checkbox by the
\* radio flag, Ch dropdown, Sig signature, missing or unknown text
C15_FieldTypeMapAsClaimed ==
    (h_index > 0 /\ h_last # <<>>) =>
        h_last[1].type = ClaimFieldType(field_objs[h_index].FT, field_objs[h_index].Ff)

\* C16 as claimed: the y stored for a field is measured from the top of the
\* page: the page height minus the upper edge of its bottom-origin rectangle
C16_StoredYFromTopAsClaimed ==
    (h_index > 0 /\ h_last # <<>>) =>
        h_last[1].abs_pos.y = page_height - field_objs[h_index].Rect[4]

-----------------------------------------------------------------------------
(* DocumentAnalyzer._extract_label_info on the text of one line.  Texts are  *)
(* strings; the str methods the source calls are the operators below.  The  *)
(* bounding box is handed back as it came and is left out: the result is    *)
(* <<label>> for (label, bbox) and <<>> for None.                            *)

\* the character at position i
Char(s, i) == SubSeq(s, i, i)

\* str.lstrip(), str.rstrip() and str.strip() on texts whose only white space
\* is the blank
RECURSIVE lstrip(_)
lstrip(s) == IF s # "" /\ Char(s, 1) = " " THEN lstrip(Tail(s)) ELSE s

RECURSIVE rstrip(_)
rstrip(s) ==
    IF s # "" /\ Char(s, Len(s)) = " " THEN rstrip(SubSeq(s, 1, Len(s) - 1)) ELSE s

strip(s) == rstrip(lstrip(s))

\* label.rstrip('.')
RECURSIVE rstrip_dot(_)
rstrip_dot(s) ==
    IF s # "" /\ Char(s, Len(s)) = "." THEN rstrip_dot(SubSeq(s, 1, Len(s) - 1)) ELSE s

\* sub in s
Contains(s, sub) ==
    \E i \in 1..(Len(s) - Len(sub) + 1) : SubSeq(s, i, i + Len(sub) - 1) = sub

\* s.endswith(sub)
EndsWith(s, sub) ==
    Len(s) >= Len(sub) /\ SubSeq(s, Len(s) - Len(sub) + 1, Len(s)) = sub

\* s.split(ch)[0]: what precedes the first ch, all of s when there is none
SplitFirst(s, ch) ==
    LET at == {i \in 1..Len(s) : Char(s, i) = ch}
    IN IF at = {} THEN s
       ELSE SubSeq(s, 1, (CHOOSE i \in at : \A j \in at : i <= j) - 1)

\* len(s.split()): the runs of characters other than the blank
WordCount(s) ==
    Cardinality({i \in 1..Len(s) :
                    Char(s, i) # " " /\ (i = 1 \/ Char(s, i - 1) = " ")})

\* s.isdigit()
IsDigit(s) == s # "" /\ \A i \in 1..Len(s) : Contains("0123456789", Char(s, i))

\* str.lower() over the letters of the texts of the model
UpperLetters == "ABCDEFGHIJKLMNOPQRSTUVWXYZÁÉÍÓÚÑ"
LowerLetters == "abcdefghijklmnopqrstuvwxyzáéíóúñ"

LowerChar(c) ==
    LET at == {i \in 1..Len(UpperLetters) : Char(UpperLetters, i) = c}
    IN IF at = {} THEN c ELSE Char(LowerLetters, CHOOSE i \in at : TRUE)

RECURSIVE lower(_)
lower(s) == IF s = "" THEN "" ELSE LowerChar(Char(s, 1)) \o lower(Tail(s))

\* lines 540-541
titulos_seccion ==
    {"datos personales", "datos fiscales", "documentación solicitada",
     "información básica", "información adicional", "documentos requeridos"}

\* lines 596-601
palabras_clave_campos ==
    {"nombre", "apellido", "apellidos", "email", "correo", "teléfono", "telefono",
     "móvil", "movil", "dni", "nif", "nie", "fecha", "sexo", "edad", "dirección",
     "direccion", "ciudad", "provincia", "país", "pais", "cp", "código", "codigo",
     "iban", "cuenta", "banco", "empresa", "cargo", "puesto", "departamento"}

\* lines 546-551: the list of the ':' case has two more entries
palabras_clave_campos_colon ==
    palabras_clave_campos \cup {"n iban", "seguridad social"}

\* lines 582 and 590
sufijos_excluir ==
    {"ción", "ducción", "miento", "mente", "idad", "ción.", "ducción.", "miento."}
palabras_excluir ==
    {"de", "la", "el", "los", "las", "en", "con", "para", "por", "se", "debe", "y", "o"}

\* for palabra_clave in ...: if palabra_clave in label_lower
ContainsKeyword(label_lower, keywords) ==
    \E palabra_clave \in keywords : Contains(label_lower, palabra_clave)

\* a blacklist test that tells upper case from lower case
InTitulosSeccionExact(label) == label \in titulos_seccion

\* line 542: label.lower() in titulos_seccion
InTitulosSeccion(label) == lower(label) \in titulos_seccion

\* lines 516-558: the text contains ':'
ExtractColonLabel(text) ==
    LET head == strip(SplitFirst(text, ":"))
        label == IF Contains(head, "(") THEN strip(SplitFirst(head, "(")) ELSE head
    IN IF head = "" \/ Len(head) < 2 \/ Len(head) > 60 THEN <<>>
       ELSE IF WordCount(head) > 8 THEN <<>>
       ELSE IF Contains(head, "(") /\ (label = "" \/ Len(label) < 2) THEN <<>>
       ELSE IF Contains(label, ")") /\ ~Contains(SplitFirst(text, ":"), "(") THEN <<>>
       ELSE IF InTitulosSeccion(label) THEN <<>>
       ELSE IF ContainsKeyword(lower(label), palabras_clave_campos_colon)
            THEN <<label>>
            ELSE <<label>>

\* lines 565-592: the filters of the case without ':' that come before the
\* keyword test
BasicFiltersReject(label) ==
    \/ label = "" \/ Len(label) < 2 \/ Len(label) > 25
    \/ WordCount(label) > 4
    \/ IsDigit(label) \/ Len(label) = 1
    \/ Contains(label, "(") \/ Contains(label, ")")
    \/ lower(label) \in sufijos_excluir
    \/ lower(rstrip_dot(label)) \in sufijos_excluir
    \/ (EndsWith(lower(rstrip_dot(label)), "ción") /\ Len(rstrip_dot(label)) < 10)
    \/ lower(label) \in palabras_excluir

\* a font-size filter with no lower limit
FontSizeRejectsAbove(font_size) == font_size > Pt(14)

\* lines 611-613: the font-size filter, applied only when a size is known
FontSizeRejects(font_size) ==
    font_size > 0 /\ (font_size > Pt(14) \/ font_size < Pt(5))

\* lines 562-615: the text contains no ':'
ExtractPlainLabel(text, font_size) ==
    LET label == strip(text)
    IN IF BasicFiltersReject(label) THEN <<>>
       ELSE IF ContainsKeyword(lower(label), palabras_clave_campos) THEN <<label>>
       ELSE IF FontSizeRejects(font_size) THEN <<>>
       ELSE <<label>>

\* _extract_label_info, lines 499-615
extract_label_info(text, font_size) ==
    IF Contains(strip(text), ":")
    THEN ExtractColonLabel(strip(text))
    ELSE ExtractPlainLabel(strip(text), font_size)

RECURSIVE SumSeq(_)
SumSeq(s) == IF s = <<>> THEN 0 ELSE Head(s) + SumSeq(Tail(s))

\* line 183: sum(font_sizes) / len(font_sizes) if font_sizes else 0; the span
\* sizes of the model are chosen so that the division is exact
avg_font_size(sizes) == IF sizes = <<>> THEN 0 ELSE SumSeq(sizes) \div Len(sizes)

-----------------------------------------------------------------------------
(* SpecLabel: _extract_label_info applied to the lines of a page, one line  *)
(* at a time (_extract_visual_fields, lines 173-188)                         *)

\* words of the longest run of short words
MaxWords == 9

\* n times the word "ab", blanks between
RECURSIVE Words(_)
Words(n) == IF n = 1 THEN "ab" ELSE "ab " \o Words(n - 1)

\* what stands before the ':' or is the whole line: field names, section
\* headings, fragments, stopwords, numbers, parentheses, and texts at the
\* limits of length (25, 26, 60 and 61 characters) and of word count
CoreSet ==
    { "Nombre", "Apellidos", "NOMBRE Y APELLIDOS", "Dirección", "Fecha",
      "Observaciones", "Firma", "Firma.", "Motivo", "A", "",
      "Datos personales", "DATOS FISCALES", "Documentación solicitada",
      "ción", "Sección", "Situación", "de", "123", "fiscales)",
      "Nombre (opcional)", "Motivo (opcional)", "(nota)", "a) b (c)",
      "Teléfono de contacto del titular",
      "abcdefghijklmnopqrstuvwxy", "abcdefghijklmnopqrstuvwxyz",
      "abcdefghijabcdefghijabcdefghijabcdefghijabcdefghijabcdefghij",
      "abcdefghijabcdefghijabcdefghijabcdefghijabcdefghijabcdefghijk",
      "Nombre abcdefghijabcdefghijabcdefghijabcdefghijabcdefghijabcdefghij" }
    \cup { Words(n) : n \in 1..MaxWords }

\* blanks before the text, and what follows it
PrefixSet == {"", " "}
SuffixSet == {"", " ", ":", ": (aclaración)", " (nota): x"}

TextSet == { pre \o core \o suf : pre \in PrefixSet, core \in CoreSet, suf \in SuffixSet }

\* the span sizes of a line: no span, one span at 4, 4.5, 5, 10, 14, 14.5 and
\* 20pt, two spans that average 10pt and two that average 20pt
FontSizesSet ==
    { <<>>, <<Pt(4)>>, <<HalfPt(9)>>, <<Pt(5)>>, <<Pt(10)>>, <<Pt(14)>>,
      <<HalfPt(29)>>, <<Pt(20)>>, <<Pt(8), Pt(12)>>, <<Pt(10), Pt(30)>> }

InitLabel ==
    /\ line_text \in TextSet
    /\ font_sizes \in FontSizesSet
    /\ label_result = <<>>
    /\ lpc = "line"
    /\ MergeIdle /\ AssocIdle /\ AnalyzerIdle /\ UIIdle /\ HandlerIdle /\ ExtraIdle

\* lines 183-188: the average size is taken and _extract_label_info called
ExtractLabelInfo ==
    /\ lpc = "line"
    /\ label_result' = extract_label_info(line_text, avg_font_size(font_sizes))
    /\ lpc' = "done"
    /\ UNCHANGED <<line_text, font_sizes, mergeVars, assocVars, analyzerVars,
                   uiVars, handlerVars, extraVars>>

NextLabel == ExtractLabelInfo

SpecLabel == InitLabel /\ [][NextLabel]_vars

-----------------------------------------------------------------------------
(* Claims on _extract_label_info *)

\* the line as _extract_label_info sees it, and whether it holds a ':'
ClaimText == strip(line_text)
ClaimHasColon == Contains(ClaimText, ":")

\* the trimmed substring before the first ':'
ClaimBeforeColon == strip(SplitFirst(ClaimText, ":"))

\* that substring with what follows its first '(' stripped
ClaimColonLabel ==
    IF Contains(ClaimBeforeColon, "(")
    THEN strip(SplitFirst(ClaimBeforeColon, "("))
    ELSE ClaimBeforeColon

\* the section headings of the specification
ClaimBlacklist ==
    {"datos personales", "datos fiscales", "documentación solicitada",
     "información básica", "información adicional", "documentos requeridos"}

\* C12 as claimed: for a line with ':', None is returned exactly when the
\* substring before the first ':' is empty, longer than 60 characters, of
\* more than 8 words or a blacklisted heading; otherwise the label is that
\* substring with a trailing parenthetical stripped
C12_ColonLabelAsClaimed ==
    (lpc = "done" /\ ClaimHasColon) =>
        IF \/ ClaimBeforeColon = ""
           \/ Len(ClaimBeforeColon) > 60
           \/ WordCount(ClaimBeforeColon) > 8
           \/ lower(ClaimColonLabel) \in ClaimBlacklist
        THEN label_result = <<>>
        ELSE label_result = <<ClaimColonLabel>>

\* C12: for a line with ':', the label is the trimmed substring before the
\* first ':' cut at its first '('; None is returned exactly when the
\* substring is shorter than 2 or longer than 60 characters or has more than
\* 8 words, when the label left by the cut is shorter than 2 characters,
\* when it holds a ')' and the substring no '(', or when it is, whatever the
\* case of its letters, a blacklisted heading.  'Nombre:' yields 'Nombre'
\* and 'Documentación solicitada:' is rejected
C12_ColonLabel ==
    /\ (lpc = "done" /\ ClaimHasColon) =>
          IF \/ Len(ClaimBeforeColon) < 2
             \/ Len(ClaimBeforeColon) > 60
             \/ WordCount(ClaimBeforeColon) > 8
             \/ Len(ClaimColonLabel) < 2
             \/ (Contains(ClaimColonLabel, ")") /\ ~Contains(ClaimBeforeColon, "("))
             \/ lower(ClaimColonLabel) \in ClaimBlacklist
          THEN label_result = <<>>
          ELSE label_result = <<ClaimColonLabel>>
    /\ (lpc = "done" /\ line_text = "Nombre:") => label_result = <<"Nombre">>
    /\ (lpc = "done" /\ line_text = "Documentación solicitada:") => label_result = <<>>

\* a heading in capitals followed by a parenthetical was rejected
C12_Witness ==
    /\ lpc = "done" /\ line_text = "DATOS FISCALES: (aclaración)"
    /\ label_result = <<>>

\* the label the keyword test is about: the label of the ':' case, the
\* trimmed line otherwise
ClaimCandidate == IF ClaimHasColon THEN ClaimColonLabel ELSE ClaimText

\* C13 as claimed: a line, with or without ':', whose candidate label
\* contains a field keyword, whatever the case of its letters, is accepted
\* whatever the other filters say
C13_KeywordAlwaysAcceptedAsClaimed ==
    (lpc = "done" /\ ContainsKeyword(lower(ClaimCandidate), palabras_clave_campos))
        => label_result = <<ClaimCandidate>>

\* the font size handed to _extract_label_info, in points times PerPt
ClaimFontSize == avg_font_size(font_sizes)

\* a line without ':' that passes the filters on length, words, digits,
\* parentheses, suffixes and stopwords and holds no field keyword
ClaimPlainToken ==
    /\ ~ClaimHasColon
    /\ ~BasicFiltersReject(ClaimText)
    /\ ~ContainsKeyword(lower(ClaimText), palabras_clave_campos)

\* C14 as claimed: such a line is rejected whenever its average font size is
\* outside [5, 14]pt, 0 for a line with no span included, and accepted
\* whenever it is inside
C14_FontSizeFilterAsClaimed ==
    (lpc = "done" /\ ClaimPlainToken) =>
        IF ClaimFontSize < Pt(5) \/ ClaimFontSize > Pt(14)
        THEN label_result = <<>>
        ELSE label_result = <<ClaimText>>

\* C14: such a line is rejected whenever its average font size is known
\* (above 0) and outside [5, 14]pt, and accepted whenever it is inside or is
\* 0 (a line with no span, or spans of size 0); a token at 20pt is rejected
\* and the same token at 10pt accepted
C14_FontSizeFilter ==
    /\ (lpc = "done" /\ ClaimPlainToken) =>
          IF ClaimFontSize > 0 /\ (ClaimFontSize < Pt(5) \/ ClaimFontSize > Pt(14))
          THEN label_result = <<>>
          ELSE label_result = <<ClaimText>>
    /\ (lpc = "done" /\ line_text = "Observaciones" /\ font_sizes = <<Pt(20)>>)
          => label_result = <<>>
    /\ (lpc = "done" /\ line_text = "Observaciones" /\ font_sizes = <<Pt(10)>>)
          => label_result = <<"Observaciones">>

\* a token whose two spans average 20pt was rejected
C14_Witness ==
    /\ lpc = "done" /\ line_text = "Observaciones"
    /\ font_sizes = <<Pt(10), Pt(30)>> /\ label_result = <<>>

-----------------------------------------------------------------------------
(* Claims: the line merger against a reference merger *)

\* the reference merger: the lines in the same Y order, each compared with
\* every line accepted before it
RECURSIVE ClaimReferenceLoop(_, _, _)
ClaimReferenceLoop(all_lines, k, acc) ==
    IF k > Len(all_lines) THEN acc
    ELSE ClaimReferenceLoop(all_lines, k + 1,
            IF \E i \in 1..Len(acc) : ClaimDuplicates(all_lines[k], acc[i])
            THEN acc ELSE Append(acc, all_lines[k]))

ClaimReferenceMerge(vl, ol) == ClaimReferenceLoop(SortByY(vl \o ol), 1, <<>>)

ExampleLineLeft == <<Pt(10), Pt(50), Pt(50)>>
ExampleLineRight == <<Pt(200), Pt(250), Pt(50)>>

\* C25: _merge_detected_lines returns the list the reference merger returns,
\* so a line is dropped only if it duplicates a line that was kept, and
\* (10,50,50) and (200,250,50), at one Y with disjoint X ranges, are both kept
C25_MergerEqualsReference ==
    mpc = "merged" =>
        /\ merged = ClaimReferenceMerge(vector_lines, opencv_lines)
        /\ LET all == vector_lines \o opencv_lines
           IN \A k \in 1..Len(all) :
                 \/ \E i \in 1..Len(merged) : merged[i] = all[k]
                 \/ \E i \in 1..Len(merged) : ClaimDuplicates(all[k], merged[i])
        /\ (vector_lines = <<ExampleLineLeft>> /\ opencv_lines = <<ExampleLineRight>>)
              => merged = <<ExampleLineLeft, ExampleLineRight>>

\* the scan stopped at an accepted line 8pt above the candidate and left two
\* more accepted lines unvisited; the two lines of the example were kept
C25_Witness ==
    /\ mpc = "merged"
    /\ vector_lines = <<ExampleLineRight, <<Pt(10), Pt(100), Pt(58)>> >>
    /\ opencv_lines = <<ExampleLineLeft, <<Pt(10), Pt(100), Pt(50)>> >>
    /\ Len(merged) = 4

-----------------------------------------------------------------------------
(***************************************************************************)
(* PreviewCache (src/utils/preview_cache.py).                              *)
(*                                                                         *)
(* Every block under "with self.lock" is one action, so the states of      *)
(* the model are the states another thread can observe.  _render_page      *)
(* runs outside the lock, between the two locked blocks of get_preview.    *)
(* An image is represented by its key.                                     *)
(***************************************************************************)

\* PreviewCache(max_cache_size): the limit, 50 in the source, scaled down
max_cache_size == 2

\* calls of get_preview a behaviour makes
MaxCalls == 5

\* "if x in s: s.remove(x)": drops the first occurrence of x
RECURSIVE list_remove(_, _)
list_remove(s, x) ==
    IF s = <<>> THEN <<>>
    ELSE IF Head(s) = x THEN Tail(s)
    ELSE <<Head(s)>> \o list_remove(Tail(s), x)

\* _cleanup_cache with an "if" in place of the "while"
cleanup_cache_once(c, o, deleted) ==
    IF Cardinality(c) > max_cache_size
    THEN IF o = <<>>
         THEN [cache |-> c, access_order |-> o, IndexError |-> TRUE,
               deleted |-> deleted]
         ELSE [cache |-> c \ {Head(o)}, access_order |-> Tail(o),
               IndexError |-> FALSE,
               deleted |-> IF Head(o) \in c THEN Append(deleted, Head(o))
                           ELSE deleted]
    ELSE [cache |-> c, access_order |-> o, IndexError |-> FALSE,
          deleted |-> deleted]

\* _cleanup_cache: pops the head of access_order while the cache is over the
\* limit; pop(0) of an empty list raises IndexError
RECURSIVE cleanup_cache(_, _, _)
cleanup_cache(c, o, deleted) ==
    IF Cardinality(c) > max_cache_size
    THEN IF o = <<>>
         THEN [cache |-> c, access_order |-> o, IndexError |-> TRUE,
               deleted |-> deleted]
         ELSE cleanup_cache(c \ {Head(o)}, Tail(o),
                            IF Head(o) \in c THEN Append(deleted, Head(o))
                            ELSE deleted)
    ELSE [cache |-> c, access_order |-> o, IndexError |-> FALSE,
          deleted |-> deleted]

nonCacheVars == <<coreVars, undoVars, genVars, syncVars, dragVars>>

InitCache ==
    /\ CacheIdle
    /\ MergeIdle /\ AssocIdle /\ AnalyzerIdle /\ UIIdle /\ HandlerIdle /\ LabelIdle
    /\ UndoIdle /\ GenIdle /\ SyncIdle /\ DragIdle

\* get_preview up to the end of its first locked block, on the caller's thread
\* or on the thread get_preview_async started: a hit returns the cached
\* image, anything else goes on to _render_page
GetPreview(key, force_refresh) ==
    /\ n_calls < MaxCalls
    /\ n_calls' = n_calls + 1
    /\ IF ~force_refresh /\ key \in cache
       THEN /\ access_order' = Append(list_remove(access_order, key), key)
            /\ last_use' = Append(SelectSeq(last_use, LAMBDA k : k # key), key)
            /\ UNCHANGED workers
       ELSE /\ workers' = [workers EXCEPT ![key] = @ + 1]
            /\ UNCHANGED <<access_order, last_use>>
    /\ UNCHANGED <<cache, last_eviction, index_error, nonCacheVars>>

\* _render_page returned None: get_preview returns None, nothing is stored
RenderFails(key) ==
    /\ workers[key] > 0
    /\ workers' = [workers EXCEPT ![key] = @ - 1]
    /\ UNCHANGED <<cache, access_order, n_calls, last_use, last_eviction,
                   index_error, nonCacheVars>>

\* _render_page returned an image: the second locked block of get_preview
\* stores it, appends the key and runs _cleanup_cache
StoreImage(key) ==
    /\ workers[key] > 0
    /\ workers' = [workers EXCEPT ![key] = @ - 1]
    /\ LET r == cleanup_cache(cache \cup {key}, Append(access_order, key), <<>>)
           lu == Append(SelectSeq(last_use, LAMBDA k : k # key), key)
       IN  /\ cache' = r.cache
           /\ access_order' = r.access_order
           /\ index_error' = (index_error \/ r.IndexError)
           /\ last_use' = SelectSeq(lu, LAMBDA k : k \in r.cache)
           /\ last_eviction' =
                  IF r.deleted = <<>> THEN last_eviction
                  ELSE << [deleted |-> r.deleted, inserted |-> key, before |-> lu] >>
    /\ UNCHANGED <<n_calls, nonCacheVars>>

\* clear()
ClearCache ==
    /\ cache # {} \/ access_order # <<>>
    /\ cache' = {} /\ access_order' = <<>> /\ last_use' = <<>>
    /\ UNCHANGED <<workers, n_calls, last_eviction, index_error, nonCacheVars>>

NextCache ==
    \/ \E key \in CacheKeys, f \in BOOLEAN : GetPreview(key, f)
    \/ \E key \in CacheKeys : RenderFails(key)
    \/ \E key \in CacheKeys : StoreImage(key)
    \/ ClearCache

SpecCache == InitCache /\ [][NextCache]_vars

-----------------------------------------------------------------------------
(* Claims about PreviewCache *)

SeqRange(s) == { s[i] : i \in 1..Len(s) }

\* access_order holds some key more than once
AccessOrderRepeats == Len(access_order) > Cardinality(SeqRange(access_order))

\* C28: in every state another thread can observe, the cache holds at most
\* max_cache_size images, every cached key occurs in access_order, and
\* _cleanup_cache has never popped from an empty access_order.
C28_CacheBounded ==
    /\ Cardinality(cache) <= max_cache_size
    /\ cache \subseteq SeqRange(access_order)
    /\ ~index_error

\* C28 witness: a full cache after an eviction, with a repeated key in
\* access_order and a second call rendering a key that is already cached.
C28_Witness ==
    /\ Cardinality(cache) = max_cache_size
    /\ last_eviction # <<>>
    /\ AccessOrderRepeats
    /\ \E key \in cache : workers[key] > 0

\* C29 as claimed: the key _cleanup_cache deletes is the least recently used
\* one (the cached key whose last hit or insertion is the oldest), and the key
\* just inserted is deleted only when no older entry remains.
C29_EvictsLeastRecentlyUsedAsClaimed ==
    last_eviction # <<>> =>
        LET e == last_eviction[1]
        IN  /\ e.deleted = <<Head(e.before)>>
            /\ e.inserted \in SeqRange(e.deleted) => e.before = <<e.inserted>>

-----------------------------------------------------------------------------
(***************************************************************************)
(* Undo and redo of PDFGeneratorApp (src/ui/app_pdf_generator.py).         *)
(*                                                                         *)
(* The application state a snapshot captures is represented by the primary *)
(* colour and the labels of the field rows.  An AppState record carries    *)
(* the two stacks with it, so that the calls of save_state_to_undo made    *)
(* inside _apply_state (by add_field_row) are part of undo and redo.       *)
(***************************************************************************)

\* the limit of the undo stack, 30 in the source, scaled down
MaxUndo == 3

\* _capture_full_state
capture_full_state(s) == [primary_color |-> s.primary_color, fields |-> s.field_rows]

\* save_state_to_undo that ignores _block_state_capture
save_state_to_undo_unblocked(block, s) ==
    LET pushed == Append(s.undo_stack, capture_full_state(s))
    IN  [s EXCEPT !.undo_stack = IF Len(pushed) > MaxUndo THEN Tail(pushed) ELSE pushed,
                  !.redo_stack = <<>>]

\* save_state_to_undo
save_state_to_undo(block, s) ==
    IF block THEN s
    ELSE LET pushed == Append(s.undo_stack, capture_full_state(s))
         IN  [s EXCEPT !.undo_stack = IF Len(pushed) > MaxUndo THEN Tail(pushed)
                                      ELSE pushed,
                       !.redo_stack = <<>>]

\* the loop of _apply_state over state["fields"]: add_field_row saves the state
\* (request_preview defaults to True) and appends the row
RECURSIVE add_field_rows(_, _, _)
add_field_rows(block, s, fs) ==
    IF fs = <<>> THEN s
    ELSE add_field_rows(block,
             [save_state_to_undo(block, s) EXCEPT !.field_rows = Append(@, Head(fs))],
             Tail(fs))

\* _apply_state, called by undo and redo with _block_state_capture set
apply_state(block, s, state) ==
    [add_field_rows(block, [s EXCEPT !.field_rows = <<>>], state.fields)
        EXCEPT !.primary_color = state.primary_color]

\* the application state held in the variables
Current == AppState(undo_stack, redo_stack, primary_color, field_rows)

\* the variables take the application state s; op is the operation recorded
Becomes(s, op) ==
    /\ undo_stack' = s.undo_stack /\ redo_stack' = s.redo_stack
    /\ primary_color' = s.primary_color /\ field_rows' = s.field_rows
    /\ undo_hist' = [ops |-> <<undo_hist.ops[2], op>>,
                     before |-> IF op = "undo" THEN Current ELSE undo_hist.before]

nonUndoVars == <<coreVars, cacheVars, genVars, syncVars, dragVars>>

InitUndo ==
    /\ UndoIdle
    /\ MergeIdle /\ AssocIdle /\ AnalyzerIdle /\ UIIdle /\ HandlerIdle /\ LabelIdle
    /\ CacheIdle /\ GenIdle /\ SyncIdle /\ DragIdle

\* choose_color: the state is saved, then the colour chosen is taken; the
\* chooser returns no colour (<<>>) when it is cancelled
ChooseColor(color_code) ==
    /\ LET s == save_state_to_undo(FALSE, Current)
       IN  Becomes(IF color_code # <<>> THEN [s EXCEPT !.primary_color = color_code[1]]
                   ELSE s, "save")
    /\ UNCHANGED nonUndoVars

\* remove_field_row: the state is saved, then the row is dropped
RemoveFieldRow(i) ==
    /\ i \in 1..Len(field_rows)
    /\ LET s == save_state_to_undo(FALSE, Current)
       IN  Becomes([s EXCEPT !.field_rows =
                        SubSeq(field_rows, 1, i - 1) \o SubSeq(field_rows, i + 1, Len(field_rows))],
                   "save")
    /\ UNCHANGED nonUndoVars

\* undo (Ctrl+Z)
Undo ==
    /\ IF undo_stack = <<>> THEN Becomes(Current, "undo")
       ELSE LET s == [Current EXCEPT
                        !.redo_stack = Append(@, capture_full_state(Current)),
                        !.undo_stack = Front(@)]
            IN  Becomes(apply_state(TRUE, s, Last(undo_stack)), "undo")
    /\ UNCHANGED nonUndoVars

\* redo (Ctrl+Y)
Redo ==
    /\ IF redo_stack = <<>> THEN Becomes(Current, "redo")
       ELSE LET s == [Current EXCEPT
                        !.undo_stack = Append(@, capture_full_state(Current)),
                        !.redo_stack = Front(@)]
            IN  Becomes(apply_state(TRUE, s, Last(redo_stack)), "redo")
    /\ UNCHANGED nonUndoVars

NextUndo ==
    \/ \E color_code \in {<<>>, <<"#2E86C1">>, <<"#FF3B30">>} : ChooseColor(color_code)
    \/ \E i \in 1..Len(field_rows) : RemoveFieldRow(i)
    \/ Undo
    \/ Redo

SpecUndo == InitUndo /\ [][NextUndo]_vars

-----------------------------------------------------------------------------
(* Claims about undo and redo *)

\* C30: the undo stack never holds more than the limit, also after redo; after
\* a save the redo stack is empty; and an undo that found a snapshot to go
\* back to, immediately followed by a redo, gives back the state and both
\* stacks as they were before the undo.
C30_UndoRedo ==
    /\ Len(undo_stack) <= MaxUndo
    /\ undo_hist.ops[2] = "save" => redo_stack = <<>>
    /\ (undo_hist.ops = <<"undo", "redo">> /\ undo_hist.before.undo_stack # <<>>)
           => Current = undo_hist.before

\* C30 witness: an undo from a full undo stack followed by a redo, which
\* fills the stack again
C30_Witness ==
    /\ undo_hist.ops = <<"undo", "redo">>
    /\ Len(undo_hist.before.undo_stack) = MaxUndo
    /\ Len(undo_stack) = MaxUndo
    /\ field_rows # <<>>

\* C30 as claimed: any undo immediately followed by a redo gives back the
\* state and the stacks, also an undo that found the undo stack empty
C30_UndoRedoAsClaimed ==
    /\ Len(undo_stack) <= MaxUndo
    /\ undo_hist.ops[2] = "save" => redo_stack = <<>>
    /\ undo_hist.ops = <<"undo", "redo">> => Current = undo_hist.before

-----------------------------------------------------------------------------
(***************************************************************************)
(* generar_pdf (src/core/pdf_generator.py) and añadir_campos_a_pdf         *)
(* (src/core/pdf_simple_fields.py).                                        *)
(*                                                                         *)
(* A campo is [type, column, abs_pos] with abs_pos either <<>> or          *)
(* <<[x, y, w, h, page]>>, y measured from the top of the page.  The       *)
(* layout loop of generar_pdf runs one field per step; the field types     *)
(* laid out are text, multiline and section, with the default spacing.     *)
(* A rectangle is <<x1, y1, x2, y2>> measured from the bottom of the page. *)
(***************************************************************************)

\* fields in a list passed to the generators
MaxCampos == 3

\* config_visual['spacing'] of the default configuration
spacing_base == Pt(60)

\* reportlab's letter page
letter == [width |-> Pt(612), height |-> Pt(792)]

\* NumberObject(x) of pypdf: the integer part of x
NumberObject(x) == IF x >= 0 THEN (x \div PerPt) * PerPt ELSE -(((-x) \div PerPt) * PerPt)

Campo(type, column, abs_pos) == [type |-> type, column |-> column, abs_pos |-> abs_pos]

AbsPos(x, y, w, h, page) == [x |-> x, y |-> y, w |-> w, h |-> h, page |-> page]

\* the height generar_pdf gives every page: that of the first page of the
\* background, letter without a background
canvas_height(bg) == IF bg = <<>> THEN letter.height ELSE bg[1]

\* c.showPage(); current_page_idx += 1; dibujar_cabecera(c, current_page_idx)
show_page(st) ==
    [st EXCEPT !.current_page_idx = @ + 1,
               !.headers = Append(@, st.current_page_idx + 1)]

\* "while current_page_idx < target_page_idx": pages are only ever added
RECURSIVE skip_to_page(_, _)
skip_to_page(st, target_page_idx) ==
    IF st.current_page_idx < target_page_idx
    THEN skip_to_page(show_page(st), target_page_idx)
    ELSE st

\* the overflow test at the head of the loop, with 120 (any field but a
\* section) or 180 (a flowing section) as the limit
page_break_below(st, limit, height) ==
    IF st.current_y < limit
    THEN [show_page(st) EXCEPT !.current_y = height - Pt(140)]
    ELSE st

\* one pass of the layout loop after the overflow test at its head
layout_body(st, campo, idx, height) ==
    LET is_abs == campo.abs_pos # <<>>
        s2 == IF is_abs THEN skip_to_page(st, campo.abs_pos[1].page) ELSE st
        col_width == (letter.width - Pt(100)) \div 2
        field_x == IF is_abs THEN campo.abs_pos[1].x
                   ELSE IF campo.column = "2" THEN Pt(50) + col_width + Pt(10)
                   ELSE Pt(50)
        field_w == IF is_abs THEN campo.abs_pos[1].w
                   ELSE IF campo.column \in {"1", "2"} THEN col_width - Pt(10)
                   ELSE letter.width - Pt(100)
        field_h == IF is_abs THEN campo.abs_pos[1].h ELSE Pt(20)
        current_y_field == IF is_abs THEN height - campo.abs_pos[1].y
                           ELSE s2.current_y - Pt(20)
        advance(n) == IF ~is_abs /\ campo.column # "1" THEN n ELSE 0
        emit(s, rect, n) ==
            [s EXCEPT !.campos_info_acroform =
                          Append(@, [page |-> s.current_page_idx, idx |-> idx,
                                     type |-> "Tx", rect |-> rect]),
                      !.current_y = @ - advance(n)]
    IN  IF campo.type = "section"
        THEN IF is_abs THEN s2
             ELSE LET s3 == page_break_below(s2, Pt(180), height)
                  IN  [s3 EXCEPT !.current_y =
                          @ - (IF campo.column = "1" THEN spacing_base ELSE 0) - Pt(45)]
        ELSE IF campo.type = "multiline"
        THEN LET h_multi == IF is_abs THEN field_h ELSE Pt(60)
             IN  emit(s2, <<field_x, current_y_field - h_multi,
                            field_x + field_w, current_y_field>>,
                      spacing_base + Pt(40))
        ELSE emit(s2, <<field_x, current_y_field - Pt(15),
                        field_x + field_w, current_y_field + Pt(5)>>, spacing_base)

\* one pass of the layout loop with the overflow test never taken
layout_field_no_break(st, campo, idx, height) == layout_body(st, campo, idx, height)

\* one pass of the layout loop of generar_pdf, for campos[idx]
layout_field(st, campo, idx, height) ==
    layout_body(
        IF campo.type # "section" THEN page_break_below(st, Pt(120), height) ELSE st,
        campo, idx, height)

\* the loop of añadir_campos_a_pdf over the fields, from the i-th on
RECURSIVE anadir_campos(_, _, _)
anadir_campos(heights, cs, i) ==
    IF i > Len(cs) THEN <<>>
    ELSE IF cs[i].abs_pos = <<>> THEN anadir_campos(heights, cs, i + 1)
    ELSE LET abs_pos == cs[i].abs_pos[1]
             page_idx == IF abs_pos.page >= Len(heights) THEN Len(heights) - 1
                         ELSE abs_pos.page
             field_bottom_y == heights[1] - abs_pos.y
         IN  <<[page |-> page_idx, idx |-> i - 1, type |-> "Tx",
                rect |-> <<NumberObject(abs_pos.x),
                           NumberObject(field_bottom_y - abs_pos.h),
                           NumberObject(abs_pos.x + abs_pos.w),
                           NumberObject(field_bottom_y)>>]>>
             \o anadir_campos(heights, cs, i + 1)

\* the fields the two generators are given
CampoSet ==
    { Campo("text", "full", <<>>), Campo("text", "1", <<>>),
      Campo("multiline", "full", <<>>), Campo("section", "full", <<>>) }
    \cup { Campo("text", "full", <<AbsPos(Pt(50), y, Pt(200), Pt(20), p)>>) :
             y \in {Pt(100), HalfPt(201)}, p \in 0..1 }

\* the backgrounds: none, one short page, two pages of different heights,
\* and a page too short for the layout to start on
BgSet == { <<>>, <<Pt(300)>>, <<Pt(300), Pt(400)>>, <<Pt(250)>> }

nonGenVars == <<coreVars, cacheVars, undoVars, syncVars, dragVars>>

InitGen ==
    /\ bg_heights \in BgSet
    /\ campos \in SeqsUpTo(CampoSet, MaxCampos)
    /\ g_idx = 0 /\ current_page_idx = 0 /\ headers = <<0>>
    /\ current_y = canvas_height(bg_heights) - Pt(140)
    /\ campos_info_acroform = <<>>
    /\ out_pdf = <<>> /\ simple_out = <<>> /\ gpc = "layout"
    /\ MergeIdle /\ AssocIdle /\ AnalyzerIdle /\ UIIdle /\ HandlerIdle /\ LabelIdle
    /\ CacheIdle /\ UndoIdle /\ SyncIdle /\ DragIdle

\* generar_pdf: the pass of the layout loop for the next field
GenerarPdfField ==
    /\ gpc = "layout" /\ g_idx < Len(campos)
    /\ LET st == layout_field([current_page_idx |-> current_page_idx,
                               current_y |-> current_y,
                               campos_info_acroform |-> campos_info_acroform,
                               headers |-> headers],
                              campos[g_idx + 1], g_idx, canvas_height(bg_heights))
       IN  /\ current_page_idx' = st.current_page_idx
           /\ current_y' = st.current_y
           /\ campos_info_acroform' = st.campos_info_acroform
           /\ headers' = st.headers
    /\ g_idx' = g_idx + 1
    /\ UNCHANGED <<bg_heights, campos, out_pdf, simple_out, gpc, nonGenVars>>

\* generar_pdf after the loop: c.save() ends the last page, every page of the
\* canvas is copied to the writer and every field is attached to
\* writer.pages[field['page']], its rectangle written with NumberObject
GenerarPdfWrite ==
    /\ gpc = "layout" /\ g_idx = Len(campos)
    /\ LET n_out == current_page_idx + 1
       IN  IF \A i \in 1..Len(campos_info_acroform) :
                  campos_info_acroform[i].page < n_out
           THEN /\ out_pdf' = << [pages |-> [i \in 1..n_out |-> canvas_height(bg_heights)],
                                 fields |-> [i \in 1..Len(campos_info_acroform) |->
                                    [campos_info_acroform[i] EXCEPT
                                        !.rect = [k \in 1..4 |-> NumberObject(@[k])]]]] >>
                /\ gpc' = "written"
           ELSE /\ gpc' = "IndexError"
                /\ UNCHANGED out_pdf
    /\ UNCHANGED <<bg_heights, campos, g_idx, current_page_idx, current_y,
                   campos_info_acroform, headers, simple_out, nonGenVars>>

\* añadir_campos_a_pdf(input_pdf_path, output_pdf_path, campos) on the
\* background PDF
AnadirCamposAPdf ==
    /\ bg_heights # <<>> /\ simple_out = <<>>
    /\ simple_out' = << anadir_campos(bg_heights, campos, 1) >>
    /\ UNCHANGED <<bg_heights, campos, g_idx, current_page_idx, current_y,
                   campos_info_acroform, headers, out_pdf, gpc, nonGenVars>>

NextGen ==
    \/ GenerarPdfField
    \/ GenerarPdfWrite
    \/ AnadirCamposAPdf

SpecGen == InitGen /\ [][NextGen]_vars

-----------------------------------------------------------------------------
(* Claims about generar_pdf and añadir_campos_a_pdf *)

\* the height of page p of the document the fields are placed on
ClaimPageHeight(p) ==
    IF bg_heights = <<>> THEN letter.height
    ELSE bg_heights[Min(p + 1, Len(bg_heights))]

\* the absolute position of the campo a form field was made from, <<>> if none
ClaimAbsPos(f) == campos[f.idx + 1].abs_pos

\* C21 as claimed: every form field generar_pdf makes for an absolute field is
\* attached to the page whose index is the field's abs_pos.page, whatever the
\* order of the list.
C21_AbsoluteFieldOnItsPageAsClaimed ==
    \A i \in 1..Len(campos_info_acroform) :
        LET f == campos_info_acroform[i]
        IN  ClaimAbsPos(f) # <<>> => f.page = ClaimAbsPos(f)[1].page

\* C22 as claimed: the bottom-origin Y of an absolute field is the height of
\* the page it is placed on minus its top-origin y, in generar_pdf (the base
\* line current_y_field, 5pt under the top of a text rectangle) and in
\* añadir_campos_a_pdf (the top of the rectangle), also on pages that are not
\* as high as the first.
C22_FlipUsesOwnPageHeightAsClaimed ==
    /\ \A i \in 1..Len(campos_info_acroform) :
           LET f == campos_info_acroform[i]
           IN  ClaimAbsPos(f) # <<>> =>
                   f.rect[4] - Pt(5) = ClaimPageHeight(f.page) - ClaimAbsPos(f)[1].y
    /\ simple_out # <<>> =>
           \A i \in 1..Len(simple_out[1]) :
               LET f == simple_out[1][i]
               IN  f.rect[4] = NumberObject(ClaimPageHeight(f.page) - ClaimAbsPos(f)[1].y)

\* C23 as claimed: the rectangle written for an absolute text field has the
\* detected line as its bottom edge, lower Y = page_height - line_y and upper
\* Y = page_height - line_y + h, in añadir_campos_a_pdf and in generar_pdf
\* (stated for the first page, whose height both functions use).
ClaimLineIsBottomEdge(f) ==
    LET abs_pos == ClaimAbsPos(f)[1]
    IN  (f.page = 0 /\ campos[f.idx + 1].type = "text") =>
            /\ f.rect[2] = NumberObject(ClaimPageHeight(0) - abs_pos.y)
            /\ f.rect[4] = NumberObject(ClaimPageHeight(0) - abs_pos.y + abs_pos.h)

C23_LineIsBottomEdgeAsClaimed ==
    /\ simple_out # <<>> =>
           \A i \in 1..Len(simple_out[1]) : ClaimLineIsBottomEdge(simple_out[1][i])
    /\ out_pdf # <<>> =>
           \A i \in 1..Len(out_pdf[1].fields) :
               ClaimAbsPos(out_pdf[1].fields[i]) # <<>> =>
                   ClaimLineIsBottomEdge(out_pdf[1].fields[i])

\* the cursor current_y a flowing field was placed with, from its rectangle
ClaimCursor(f) ==
    IF campos[f.idx + 1].type = "multiline" THEN f.rect[4] + Pt(20)
    ELSE f.rect[2] + Pt(35)

ClaimFlowLayout ==
    \* every flowing field is placed with the cursor at 120pt or above
    /\ \A i \in 1..Len(campos_info_acroform) :
           ClaimAbsPos(campos_info_acroform[i]) = <<>> =>
               ClaimCursor(campos_info_acroform[i]) >= Pt(120)
    \* the page index only grows, one header per page
    /\ headers = [k \in 1..(current_page_idx + 1) |-> k - 1]
    /\ \A i, j \in 1..Len(campos_info_acroform) :
           i < j => campos_info_acroform[i].page <= campos_info_acroform[j].page
    \* every form field refers to a page of the output
    /\ gpc # "IndexError"
    /\ out_pdf # <<>> =>
           \A i \in 1..Len(out_pdf[1].fields) :
               out_pdf[1].fields[i].page \in 0..(Len(out_pdf[1].pages) - 1)

\* C24: on pages at least 260pt high, a flowing field that is not a section is
\* always placed with the cursor at 120pt or above (a page break with a new
\* header comes first when the cursor is lower), the page index never
\* decreases and every form field refers to a page that exists in the output.
C24_FlowLayout ==
    canvas_height(bg_heights) >= Pt(260) => ClaimFlowLayout

\* C24 witness: a flowing field placed on the second page after an overflow,
\* in a document that was written
C24_Witness ==
    /\ canvas_height(bg_heights) >= Pt(260)
    /\ out_pdf # <<>>
    /\ \E i \in 1..Len(campos_info_acroform) :
           /\ ClaimAbsPos(campos_info_acroform[i]) = <<>>
           /\ campos_info_acroform[i].page = 1
    /\ \A i \in 1..Len(campos) : campos[i].abs_pos = <<>> /\ campos[i].type # "section"

\* C24 as claimed: the same on every page height
C24_FlowLayoutAsClaimed == ClaimFlowLayout

-----------------------------------------------------------------------------
(***************************************************************************)
(* PDFMasterPro.sync_from_generator and sync_to_generator                  *)
(* (PDF_MASTER_PRO.py).                                                    *)
(*                                                                         *)
(* Coordinates are held in thousandths of a point (generator) or of a      *)
(* pixel (visual editor).  A product with a scale factor is rounded to the *)
(* nearest thousandth, where the source rounds to the nearest double.      *)
(* A row of the generator is [label, abs_pos], abs_pos <<>> when the field *)
(* flows; a field of the editor is [label, x, y, w, h, page].              *)
(***************************************************************************)

\* rows of the generator
MaxRows == 2

\* v * (num / den), rounded to the nearest thousandth
scaled(v, num, den) == (2 * v * num + den) \div (2 * den)

\* the loop of sync_from_generator over app_generator.field_rows, from row i on
RECURSIVE fields_from_rows(_, _, _)
fields_from_rows(rows, i, fields_loaded) ==
    IF i > Len(rows) THEN <<>>
    ELSE LET abs_pos == rows[i].abs_pos
         IN  << IF abs_pos # <<>>
                THEN [label |-> rows[i].label,
                      x |-> scaled(abs_pos[1].x, 150, 72),
                      y |-> scaled(abs_pos[1].y, 150, 72),
                      w |-> scaled(abs_pos[1].w, 150, 72),
                      h |-> scaled(abs_pos[1].h, 150, 72),
                      page |-> abs_pos[1].page]
                ELSE [label |-> rows[i].label,
                      x |-> 50000, y |-> 50000 + fields_loaded * 30000,
                      w |-> 150000, h |-> 20000, page |-> 0] >>
             \o fields_from_rows(rows, i + 1, fields_loaded + 1)

\* the loop of sync_to_generator over visual_editor.get_fields(): to_dict
\* gives every field an abs_pos, add_field_row receives it scaled back
rows_from_fields(fs) ==
    [i \in 1..Len(fs) |->
        [label |-> fs[i].label,
         abs_pos |-> << AbsPos(scaled(fs[i].x, 72, 150), scaled(fs[i].y, 72, 150),
                               scaled(fs[i].w, 72, 150), scaled(fs[i].h, 72, 150),
                               fs[i].page) >>]]

\* the rows the generator holds: flowing fields and fields placed on a page
RowSet ==
    { [label |-> "Nombre", abs_pos |-> <<>>],
      [label |-> "Firma", abs_pos |-> <<AbsPos(50000, 100500, 200000, 20000, 0)>>],
      [label |-> "Fecha", abs_pos |-> <<AbsPos(15000, 300000, 120000, 20000, 1)>>] }

nonSyncVars == <<coreVars, cacheVars, undoVars, genVars, dragVars>>

InitSync ==
    /\ gen_rows \in SeqsUpTo(RowSet, MaxRows)
    /\ bg_exists \in BOOLEAN
    /\ ve_fields = <<>>
    /\ sync_hist = [ops |-> <<"", "">>, before |-> <<>>]
    /\ MergeIdle /\ AssocIdle /\ AnalyzerIdle /\ UIIdle /\ HandlerIdle /\ LabelIdle
    /\ CacheIdle /\ UndoIdle /\ GenIdle /\ DragIdle

\* sync_from_generator: without a background PDF only the status changes
SyncFromGenerator ==
    /\ ve_fields' = IF bg_exists THEN fields_from_rows(gen_rows, 1, 0) ELSE ve_fields
    /\ sync_hist' = [ops |-> <<sync_hist.ops[2], "from">>, before |-> gen_rows]
    /\ UNCHANGED <<gen_rows, bg_exists, nonSyncVars>>

\* sync_to_generator: the rows of the generator are cleared and rebuilt
SyncToGenerator ==
    /\ gen_rows' = rows_from_fields(ve_fields)
    /\ sync_hist' = [sync_hist EXCEPT !.ops = <<sync_hist.ops[2], "to">>]
    /\ UNCHANGED <<ve_fields, bg_exists, nonSyncVars>>

NextSync ==
    \/ SyncFromGenerator
    \/ SyncToGenerator

SpecSync == InitSync /\ [][NextSync]_vars

-----------------------------------------------------------------------------
(* Claims about the synchronisation with the visual editor *)

\* C26 as claimed: sync_from_generator followed at once by sync_to_generator
\* gives every field its position back: the same x, y, w, h and page for a
\* field with abs_pos, and no abs_pos for a field that had none.
C26_PositionsRoundTripAsClaimed ==
    sync_hist.ops = <<"from", "to">> =>
        /\ Len(gen_rows) = Len(sync_hist.before)
        /\ \A i \in 1..Len(gen_rows) : gen_rows[i].abs_pos = sync_hist.before[i].abs_pos

-----------------------------------------------------------------------------
(***************************************************************************)
(* PDFGeneratorApp._on_preview_click, _on_preview_drag and                 *)
(* _on_preview_release (app_pdf_generator.py).                             *)
(*                                                                         *)
(* Lengths are held in fortieths of a point: one pixel of the 480 pixel    *)
(* wide preview of a 612pt wide page is 612/480 = 51/40 pt.  The label     *)
(* shows the image without margins, design mode is off and there is no     *)
(* logo and no extra image.                                                *)
(***************************************************************************)

\* clicks on the preview in one run
MaxClicks == 2

\* n points
Points(n) == n * 40

\* self.bg_pdf_dims after _init_state: letter
bg_pdf_dims == <<Points(612), Points(792)>>

\* event.x * scale_display_to_pdf, scale_display_to_pdf = bg_pdf_dims[0] / 480
display_to_pdf(px) == (px * bg_pdf_dims[1]) \div 480

\* Python's int(): truncation toward zero
int(v) == IF v >= 0 THEN (v \div 40) * 40 ELSE -(((-v) \div 40) * 40)

\* the click is inside the field of row idx, with the tolerance of 30 points
click_hits(rows, idx, pdf_x, total_pdf_y) ==
    /\ rows[idx] # <<>>
    /\ LET abs_pos == rows[idx][1]
           field_y == abs_pos.page * bg_pdf_dims[2] + abs_pos.y
       IN  /\ abs_pos.x - Points(30) <= pdf_x
           /\ pdf_x <= abs_pos.x + abs_pos.w + Points(30)
           /\ field_y - Points(30) <= total_pdf_y
           /\ total_pdf_y <= field_y + abs_pos.h + Points(30)

\* four times the square of the distance from the click to the field's centre
distance(rows, idx, pdf_x, total_pdf_y) ==
    LET abs_pos == rows[idx][1]
        field_y == abs_pos.page * bg_pdf_dims[2] + abs_pos.y
        ddx     == 2 * pdf_x - (2 * abs_pos.x + abs_pos.w)
        ddy     == 2 * total_pdf_y - (2 * field_y + abs_pos.h)
    IN  ddx * ddx + ddy * ddy

\* closest_field: <<idx>> of the first of the nearest fields hit, or None
closest_field(rows, pdf_x, total_pdf_y) ==
    LET hits == { i \in 1..Len(rows) : click_hits(rows, i, pdf_x, total_pdf_y) }
        d(i) == distance(rows, i, pdf_x, total_pdf_y)
    IN  IF hits = {} THEN None
        ELSE << CHOOSE i \in hits :
                    \A j \in hits : d(i) < d(j) \/ (d(i) = d(j) /\ i <= j) >>

\* the rows of the form: a flowing field, a field on page 0 or 1 and a field
\* on the other page or on the same one, 30 points lower
PreviewRowSets ==
    { << <<>>,
         <<AbsPos(Points(50), Points(100), Points(200), Points(20), p)>>,
         <<AbsPos(Points(60), Points(130), Points(100), Points(20), q)>> >>
      : p \in 0..1, q \in 0..1 }

\* the pointer positions of the events, in pixels of the preview
EventX == {100, 118, 130}
EventY == {86, 96, 400, 707, 717}

nonDragVars == <<coreVars, cacheVars, undoVars, genVars, syncVars>>

InitDrag ==
    /\ preview_rows \in PreviewRowSets
    /\ drag_preview = [id |-> None, field_idx |-> 0, start_x |-> 0, start_y |-> 0,
                       original_pos |-> <<0, 0>>]
    /\ drag_hist = [op |-> "", before |-> <<>>, t |-> <<0, 0>>, clicks |-> 0]
    /\ MergeIdle /\ AssocIdle /\ AnalyzerIdle /\ UIIdle /\ HandlerIdle /\ LabelIdle
    /\ CacheIdle /\ UndoIdle /\ GenIdle /\ SyncIdle

\* _on_preview_click: the nearest absolute field under the pointer is taken
\* for dragging; otherwise nothing is
PreviewClick(ex, ey) ==
    LET pdf_x       == display_to_pdf(ex)
        total_pdf_y == display_to_pdf(ey)
        closest     == closest_field(preview_rows, pdf_x, total_pdf_y)
    IN  /\ drag_hist.clicks < MaxClicks
        /\ IF closest # None
           THEN LET idx     == closest[1]
                    abs_pos == preview_rows[idx][1]
                IN  /\ drag_preview' = [id |-> <<idx>>, field_idx |-> idx,
                                        start_x |-> pdf_x, start_y |-> total_pdf_y,
                                        original_pos |-> <<abs_pos.x, abs_pos.y>>]
                    /\ drag_hist' = [op |-> "click", before |-> <<abs_pos>>,
                                     t |-> <<pdf_x, total_pdf_y>>,
                                     clicks |-> drag_hist.clicks + 1]
           ELSE /\ drag_preview' = [drag_preview EXCEPT !.id = None]
                /\ drag_hist' = [op |-> "miss", before |-> <<>>, t |-> <<pdf_x, total_pdf_y>>,
                                 clicks |-> drag_hist.clicks + 1]
        /\ UNCHANGED <<preview_rows, nonDragVars>>

\* _on_preview_drag: the field taken by the click follows the pointer
PreviewDrag(ex, ey) ==
    LET pdf_x       == display_to_pdf(ex)
        total_pdf_y == display_to_pdf(ey)
        ddx         == pdf_x - drag_preview.start_x
        ddy         == total_pdf_y - drag_preview.start_y
        ox          == drag_preview.original_pos[1]
        oy          == drag_preview.original_pos[2]
        new_x       == Max(0, ox + ddx)
        idx         == drag_preview.field_idx
        page_offset == preview_rows[idx][1].page * bg_pdf_dims[2]
        page_relative_y == (oy + ddy) - page_offset
    IN  /\ IF drag_preview.id = None
           THEN /\ UNCHANGED preview_rows
                /\ drag_hist' = [drag_hist EXCEPT !.op = "idle"]
           ELSE /\ preview_rows' =
                       [preview_rows EXCEPT ![idx] =
                           << [preview_rows[idx][1] EXCEPT !.x = int(new_x),
                                                           !.y = int(page_relative_y)] >>]
                /\ drag_hist' = [drag_hist EXCEPT !.op = "drag", !.t = <<pdf_x, total_pdf_y>>]
        /\ UNCHANGED <<drag_preview, nonDragVars>>

\* _on_preview_release
PreviewRelease ==
    /\ drag_preview' = [drag_preview EXCEPT !.id = None]
    /\ drag_hist' = [drag_hist EXCEPT !.op = "release"]
    /\ UNCHANGED <<preview_rows, nonDragVars>>

NextDrag ==
    \/ \E ex \in EventX, ey \in EventY : PreviewClick(ex, ey)
    \/ \E ex \in EventX, ey \in EventY : PreviewDrag(ex, ey)
    \/ PreviewRelease

SpecDrag == InitDrag /\ [][NextDrag]_vars

-----------------------------------------------------------------------------
(* Claims about dragging a field in the preview *)

\* the field being dragged has the position the claim gives it, from its
\* abs_pos at the click, the click position s and the pointer position t
ClaimDragged ==
    LET f0 == drag_hist.before[1]
        f  == preview_rows[drag_preview.field_idx][1]
        sx == drag_preview.start_x
        sy == drag_preview.start_y
    IN  /\ f.y = int(f0.y + (drag_hist.t[2] - sy))
        /\ f.x = int(Max(0, f0.x + (drag_hist.t[1] - sx)))
        /\ f.page = f0.page /\ f.w = f0.w /\ f.h = f0.h

\* C27 as claimed: a drag from s to t sets the page-local y of a field on any
\* page to int(y0 + (t.y - s.y)) and its x to int(max(0, x0 + (t.x - s.x))),
\* and leaves its page, width and height unchanged.
C27_DragMovesWithinPageAsClaimed ==
    drag_hist.op = "drag" => ClaimDragged

=============================================================================
